---------------------------- MODULE Spec2Model ----------------------------
(***************************************************************************)
(* LibAFLstar: the multi-state container (src/src/state.rs), the state     *)
(* schedulers (src/src/state_scheduler.rs), the counter update of the      *)
(* executor (src/src/executor) and the fuzz loop (src/src/fuzzer.rs).      *)
(*                                                                         *)
(* Target state ids are 0-based as in the source; TLA+ sequences are       *)
(* 1-based, so the inner state of id i is inner[i + 1].                    *)
(* Option<T> is a sequence of length 0 (None) or 1 (Some(x)).              *)
(* A SerdeAnyMap / NamedSerdeAnyMap is a function whose domain is the set  *)
(* of keys present.                                                        *)
(***************************************************************************)
EXTENDS Integers, Sequences, FiniteSets, TLC

VARIABLES
    state,      \* the LibAFLStarState: "absent" fields until it is constructed
    ctor,       \* outcome of new_with_access_mode and the arguments it got
    last,       \* the last operation called on the container and what it returned
                \* (at: the active id before a for_each / map_to_vec; pre: the
                \* container before a call that returned Err)
    detour,     \* observer of switch_state(i); switch_state(j); switch_state(i):
                \* before is the container when the detour started (its idx
                \* field set to 0)
    writes,     \* the writes made through the routed accessors: kind, active id, token
    ops,        \* number of mutating accessor calls made so far
    sched,      \* the state scheduler handed to the fuzz loop
    executor,   \* the StatefulPersistentExecutor and its forkserver
    pc,         \* position of fuzz_loop_with_signal_handling and its locals
    quitting,   \* the flag the terminating signals set
    obs,        \* observer of the fuzz loop: executor calls, selections, the
                \* last scheduler call, the history maps the novelty search saw
    choice      \* input and result of a weighted_choice call

apivars == <<ctor, last, detour, writes, ops>>
loopvars == <<sched, executor, pc, quitting, obs>>
vars == <<state, ctor, last, detour, writes, ops, sched, executor, pc, quitting, obs, choice>>

(***************************************************************************)
(* Bounds of the model.                                                    *)
(***************************************************************************)
MaxStates == 2
MaxOps == 2
MaxPrefixLen == 1
MaxRuns == 4
MaxPicks == 4
MaxPairs == 2
MaxWeight == 2

(***************************************************************************)
(* Option<T>                                                               *)
(***************************************************************************)
None == <<>>
Some(x) == <<x>>
is_none(o) == Len(o) = 0
is_some(o) == Len(o) = 1
unwrap(o) == o[1]

(***************************************************************************)
(* SerdeAnyMap                                                             *)
(***************************************************************************)
SerdeAnyMap_new == [k \in {} |-> 0]
map_insert(m, k, v) == [x \in (DOMAIN m) \cup {k} |-> IF x = k THEN v ELSE m[x]]
map_has(m, k) == k \in DOMAIN m

StateAccessMode == {"SingleCorp", "MultiCorpSingleMeta", "MultiCorpMultiMeta"}

KEY_HISTORY == "mapfeedback_metadata_shared_mem"
KEY_OBJECTIVE == "mapfeedback_metadata_objective"
KEY_TOKENS == "Tokens"
\* some other SerdeAny type a consumer of HasMetadata keeps in the map
KEY_ANY == "AnyMetadata"

(***************************************************************************)
(* InnerState::new                                                         *)
(***************************************************************************)
InnerState_new(corpus, metadata, named_metadata) ==
    [ corpus |-> corpus,
      metadata |-> metadata,
      named_metadata |-> named_metadata,
      imported |-> 0,
      executions |-> 0,
      fuzz_cycles |-> 0,
      corpus_idx |-> None,
      stage_idx_stack |-> <<>>,
      stage_depth |-> 0 ]

(***************************************************************************)
(* Results: Ok(v) / Err(kind)                                              *)
(***************************************************************************)
Ok(st) == [ok |-> TRUE, state |-> st, err |-> "none"]
Err(st, kind) == [ok |-> FALSE, state |-> st, err |-> kind]

(***************************************************************************)
(* LibAFLStarState::inner / inner_mut                                      *)
(***************************************************************************)
inner(st) == st.inner[st.idx + 1]
inner_mut(st, f) == [st EXCEPT !.inner[st.idx + 1] = f]

(***************************************************************************)
(* MultipleStates for LibAFLStarState                                      *)
(***************************************************************************)
switch_state_resetting(st, i) ==
    IF i > st.num_states - 1
    THEN Err(st, "IllegalState")
    ELSE Ok([st EXCEPT !.idx = i, !.inner[i + 1].corpus_idx = None])

switch_state_off_by_one(st, i) ==
    IF i > st.num_states
    THEN Err(st, "IllegalState")
    ELSE Ok([st EXCEPT !.idx = i])

\* num_states >= 1 in every constructed container, so num_states - 1 does
\* not wrap.
switch_state(st, i) ==
    IF i > st.num_states - 1
    THEN Err(st, "IllegalState")
    ELSE Ok([st EXCEPT !.idx = i])

current_state_idx(st) == st.idx
states_len(st) == st.num_states
prefix(st) == st.prefixes[st.idx + 1]
outgoing_edges(st) == prefix(st).metadata.outgoing_edges
fuzz_cycles(st) == inner(st).fuzz_cycles
fuzz_cycles_set(st, v) == inner_mut(st, [inner(st) EXCEPT !.fuzz_cycles = v])


(***************************************************************************)
(* HasCorpus / HasMetadata / HasNamedMetadata / HasSharedMetadata: the     *)
(* getters return what the code's reference points at, the *_mut ones      *)
(* store a new value through the mutable reference.                        *)
(***************************************************************************)
corpus(st) ==
    IF st.access_mode = "SingleCorp"
    THEN unwrap(st.corpus)
    ELSE unwrap(inner(st).corpus)

corpus_mut_always_inner(st, c) ==
    inner_mut(st, [inner(st) EXCEPT !.corpus = Some(c)])

corpus_mut(st, c) ==
    IF st.access_mode = "SingleCorp"
    THEN [st EXCEPT !.corpus = Some(c)]
    ELSE inner_mut(st, [inner(st) EXCEPT !.corpus = Some(c)])

metadata_map(st) ==
    IF st.access_mode \in {"SingleCorp", "MultiCorpSingleMeta"}
    THEN st.shared_metadata
    ELSE unwrap(inner(st).metadata)

metadata_map_mut(st, m) ==
    IF st.access_mode \in {"SingleCorp", "MultiCorpSingleMeta"}
    THEN [st EXCEPT !.shared_metadata = m]
    ELSE inner_mut(st, [inner(st) EXCEPT !.metadata = Some(m)])

named_metadata_map(st) ==
    IF st.access_mode \in {"SingleCorp", "MultiCorpSingleMeta"}
    THEN st.shared_named_metadata
    ELSE unwrap(inner(st).named_metadata)

named_metadata_map_mut(st, m) ==
    IF st.access_mode \in {"SingleCorp", "MultiCorpSingleMeta"}
    THEN [st EXCEPT !.shared_named_metadata = m]
    ELSE inner_mut(st, [inner(st) EXCEPT !.named_metadata = Some(m)])

shared_metadata_map(st) == st.shared_metadata
shared_metadata_map_mut(st, m) == [st EXCEPT !.shared_metadata = m]

(***************************************************************************)
(* HasImported / HasExecutions / HasCurrentCorpusIdx / HasCurrentStage /   *)
(* HasNestedStageStatus                                                    *)
(***************************************************************************)
imported(st) == inner(st).imported
imported_mut(st, v) == inner_mut(st, [inner(st) EXCEPT !.imported = v])

executions(st) == inner(st).executions
executions_mut(st, v) == inner_mut(st, [inner(st) EXCEPT !.executions = v])

set_corpus_idx(st, id) == Ok(inner_mut(st, [inner(st) EXCEPT !.corpus_idx = Some(id)]))
current_corpus_idx(st) == inner(st).corpus_idx

set_stage(st, i) ==
    IF inner(st).stage_depth # Len(inner(st).stage_idx_stack)
    THEN Err(st, "IllegalState")
    ELSE Ok(inner_mut(st, [inner(st) EXCEPT !.stage_idx_stack = Append(@, i)]))

enter_inner_stage(st) == Ok(inner_mut(st, [inner(st) EXCEPT !.stage_depth = @ + 1]))

(***************************************************************************)
(* MapFeedbackMetadata.history_map: a Vec<u8>, empty until the feedback    *)
(* first looks at the observer, then MapLen bytes.  A byte only grows.     *)
(***************************************************************************)
MapLen == 2

history_default == <<>>
history_resized(h) == [p \in 1..MapLen |-> IF p <= Len(h) THEN h[p] ELSE 0]
history_hit(h, p) == [history_resized(h) EXCEPT ![p] = 1]
history_of(m) == m[KEY_HISTORY]
count_non_zero(h) == Cardinality({p \in 1..Len(h) : h[p] # 0})

(***************************************************************************)
(* The closures the program hands to for_each / map_to_vec.  fail_at is    *)
(* the target state at which the closure returns Err (-1: never).          *)
(*   init_state  feedback.init_state + objective.init_state (state.rs 594) *)
(*   add_tokens  state.add_metadata(tokens) (bin/.../main.rs)              *)
(*   fire        manager.fire(UpdateExecStats) (fuzzer.rs 238)             *)
(*   weights     (current_state_idx, outgoing_edges) (state_scheduler 156) *)
(***************************************************************************)
ClosureResult(ok, st, val) == [ok |-> ok, state |-> st, val |-> val]

ApplyClosure(c, st) ==
    IF c.fail_at = current_state_idx(st)
    THEN ClosureResult(FALSE, st, <<>>)
    ELSE CASE c.kind = "init_state" ->
                ClosureResult(TRUE,
                    named_metadata_map_mut(st,
                        map_insert(map_insert(named_metadata_map(st),
                                              KEY_HISTORY, history_default),
                                   KEY_OBJECTIVE, history_default)),
                    <<>>)
           [] c.kind = "add_tokens" ->
                ClosureResult(TRUE,
                    metadata_map_mut(st, map_insert(metadata_map(st), KEY_TOKENS, {})),
                    <<>>)
           [] c.kind = "fire" ->
                ClosureResult(TRUE, st, <<>>)
           [] c.kind = "weights" ->
                ClosureResult(TRUE, st, <<current_state_idx(st), outgoing_edges(st)>>)

(***************************************************************************)
(* MultipleStates::for_each.  calls: the active id at each call of f;      *)
(* vals: what the calls returned.                                          *)
(***************************************************************************)
LoopResult(ok, st, calls, vals) ==
    [ok |-> ok, state |-> st, calls |-> calls, vals |-> vals]

RECURSIVE for_each_from(_, _, _, _, _)
for_each_from(st, c, k, calls, vals) ==
    IF k >= states_len(st)
    THEN LoopResult(TRUE, st, calls, vals)
    ELSE LET \* f(self)?
             applied(r, called) ==
                IF ~r.ok
                THEN LoopResult(FALSE, r.state, called, vals)
                ELSE for_each_from(r.state, c, k + 1, called, Append(vals, r.val))
             \* self.switch_state(idx)?
             switched(sw) ==
                IF ~sw.ok
                THEN LoopResult(FALSE, sw.state, calls, vals)
                ELSE applied(ApplyClosure(c, sw.state),
                             Append(calls, current_state_idx(sw.state)))
         IN  switched(switch_state(st, k))

for_each(st, c) ==
    LET original_idx == current_state_idx(st)
        then(body) ==
            IF ~body.ok
            THEN body
            ELSE LET sw == switch_state(body.state, original_idx)
                 IN  LoopResult(sw.ok, sw.state, body.calls, body.vals)
    IN  then(for_each_from(st, c, 0, <<>>, <<>>))

(***************************************************************************)
(* MultipleStates::map_to_vec                                              *)
(***************************************************************************)
map_to_vec(st, c) ==
    LET original_idx == current_state_idx(st)
        then(body) ==
            IF ~body.ok
            THEN body
            ELSE LET sw == switch_state(body.state, original_idx)
                 IN  LoopResult(sw.ok, sw.state, body.calls, body.vals)
    IN  then(for_each(st, c))

(***************************************************************************)
(* LibAFLStarState::new_with_access_mode.  corpora: the Vec<C> supplied,   *)
(* prefixes: the Vec<Prefix>, init: the init_state closure of the          *)
(* feedback and the objective.                                             *)
(***************************************************************************)
NoState ==
    [ access_mode |-> "none", idx |-> 0, num_states |-> 0,
      shared_named_metadata |-> SerdeAnyMap_new,
      shared_metadata |-> SerdeAnyMap_new,
      corpus |-> None, inner |-> <<>>, prefixes |-> <<>> ]

\* the match on access_mode that checks corpora.len()
corpora_fit_at_least_one(corpora, prefixes, access_mode) ==
    IF access_mode = "SingleCorp"
    THEN Len(corpora) >= 1
    ELSE Len(prefixes) = Len(corpora)

corpora_fit(corpora, prefixes, access_mode) ==
    IF access_mode = "SingleCorp"
    THEN Len(corpora) = 1
    ELSE Len(prefixes) = Len(corpora)

new_with_access_mode(corpora, prefixes, access_mode, init) ==
    IF Len(prefixes) = 0
    THEN Err(NoState, "IllegalArgument")
    ELSE IF ~corpora_fit(corpora, prefixes, access_mode)
    THEN Err(NoState, "IllegalArgument")
    ELSE LET num_states == Len(prefixes)
             \* corpora.pop()
             shared_corpus ==
                IF access_mode = "SingleCorp" /\ Len(corpora) > 0
                THEN Some(corpora[Len(corpora)])
                ELSE None
             inner_states ==
                CASE access_mode = "SingleCorp" ->
                        [k \in 1..num_states |-> InnerState_new(None, None, None)]
                  [] access_mode = "MultiCorpSingleMeta" ->
                        [k \in 1..Len(corpora) |->
                            InnerState_new(Some(corpora[k]), None, None)]
                  [] access_mode = "MultiCorpMultiMeta" ->
                        [k \in 1..Len(corpora) |->
                            InnerState_new(Some(corpora[k]),
                                           Some(SerdeAnyMap_new),
                                           Some(SerdeAnyMap_new))]
             st == [ access_mode |-> access_mode,
                     idx |-> 0,
                     num_states |-> num_states,
                     shared_named_metadata |-> SerdeAnyMap_new,
                     shared_metadata |-> SerdeAnyMap_new,
                     corpus |-> shared_corpus,
                     inner |-> inner_states,
                     prefixes |-> prefixes ]
             then(r) == IF r.ok THEN Ok(r.state) ELSE Err(NoState, "init_state")
         IN  then(for_each(st, init))

(***************************************************************************)
(* weighted_choice.  rand.choose draws a position of the expanded list; r  *)
(* is the number the generator produced.  The list is never empty where    *)
(* the program calls it (an empty list panics).                            *)
(***************************************************************************)
RECURSIVE expand_weight_floor(_)
expand_weight_floor(weight_pairs) ==
    IF weight_pairs = <<>>
    THEN <<>>
    ELSE LET value == weight_pairs[1][1]
             weight == weight_pairs[1][2]
         IN  [k \in 1..(IF weight = 0 THEN 1 ELSE weight) |-> value]
                \o expand_weight_floor(Tail(weight_pairs))

\* flat_map(|(value, weight)| repeat(value).take(weight + 1))
RECURSIVE expand(_)
expand(weight_pairs) ==
    IF weight_pairs = <<>>
    THEN <<>>
    ELSE LET value == weight_pairs[1][1]
             weight == weight_pairs[1][2]
         IN  [k \in 1..(weight + 1) |-> value] \o expand(Tail(weight_pairs))

weighted_choice(weight_pairs, r) ==
    LET list == expand(weight_pairs)
    IN  list[(r % Len(list)) + 1]

(***************************************************************************)
(* State schedulers.  A scheduler call returns Ok(idx) or Err and the      *)
(* container it leaves; calls lists what UnusedFirst did, in order: -1 for *)
(* the call of the inner scheduler, k >= 0 for looking at fuzz_cycles with *)
(* state k active.  inner is what the inner scheduler returned.            *)
(***************************************************************************)
KEY_NOVELTY == "NoveltyIsBetterMetadata"

NoveltyIsBetterMetadata_default ==
    [index_counts |-> SerdeAnyMap_new, novelties |-> SerdeAnyMap_new]

NoInner == [ok |-> TRUE, idx |-> 0, err |-> "none"]

SchedOk(st, idx) ==
    [ok |-> TRUE, idx |-> idx, err |-> "none", state |-> st,
     calls |-> <<>>, inner |-> NoInner]
SchedErr(st, kind) ==
    [ok |-> FALSE, idx |-> 0, err |-> kind, state |-> st,
     calls |-> <<>>, inner |-> NoInner]

WeightsOk(st, pairs) == [ok |-> TRUE, state |-> st, pairs |-> pairs, err |-> "none"]
WeightsErr(st, kind) == [ok |-> FALSE, state |-> st, pairs |-> <<>>, err |-> kind]

\* HashMap::into_iter().collect(): the pairs of the map (here by ascending key)
RECURSIVE into_pairs(_, _)
into_pairs(m, keys) ==
    IF keys = {}
    THEN <<>>
    ELSE LET k == CHOOSE x \in keys : \A y \in keys : x <= y
         IN  <<<<k, m[k]>>>> \o into_pairs(m, keys \ {k})

RECURSIVE sum_weights(_)
sum_weights(pairs) ==
    IF pairs = <<>> THEN 0 ELSE pairs[1][2] + sum_weights(Tail(pairs))

Cycler_choose_next_state_stay(st) ==
    SchedOk(st, current_state_idx(st) % states_len(st))

Cycler_choose_next_state(st) ==
    SchedOk(st, (current_state_idx(st) + 1) % states_len(st))

\* every state is given the weight 0
OutgoingEdges_get_weights_all_zero(st) ==
    WeightsOk(st, [k \in 1..states_len(st) |-> <<k - 1, 0>>])

OutgoingEdges_get_weights(st) ==
    LET then(r) ==
            IF r.ok THEN WeightsOk(r.state, r.vals) ELSE WeightsErr(r.state, "IllegalState")
    IN  then(map_to_vec(st, [kind |-> "weights", fail_at |-> -1]))

\* the novelty is written without the previous count being replaced
NoveltySearchInner_get_weights_keeps_first(st) ==
    LET curr_idx == current_state_idx(st)
        curr_cnt == count_non_zero(history_of(named_metadata_map(st)))
        sm == shared_metadata_map(st)
        meta == sm[KEY_NOVELTY]
        prev_cnt == IF curr_idx \in DOMAIN meta.index_counts
                    THEN meta.index_counts[curr_idx] ELSE 0
        meta1 == IF curr_idx \in DOMAIN meta.index_counts
                 THEN meta
                 ELSE [meta EXCEPT !.index_counts = map_insert(@, curr_idx, curr_cnt)]
        meta2 == [meta1 EXCEPT !.novelties = map_insert(@, curr_idx, curr_cnt - prev_cnt)]
    IN  WeightsOk(shared_metadata_map_mut(st, map_insert(sm, KEY_NOVELTY, meta2)),
                  into_pairs(meta2.novelties, DOMAIN meta2.novelties))

\* curr_cnt.saturating_sub(prev_cnt): a smaller count gives novelty 0
NoveltySearchInner_get_weights_saturating(st) ==
    LET curr_idx == current_state_idx(st)
        curr_cnt == count_non_zero(history_of(named_metadata_map(st)))
        sm == shared_metadata_map(st)
        meta == sm[KEY_NOVELTY]
        prev_cnt == IF curr_idx \in DOMAIN meta.index_counts
                    THEN meta.index_counts[curr_idx] ELSE 0
        meta2 == [meta EXCEPT
                    !.index_counts = map_insert(@, curr_idx, curr_cnt),
                    !.novelties = map_insert(@, curr_idx,
                                     IF curr_cnt >= prev_cnt
                                     THEN curr_cnt - prev_cnt ELSE 0)]
    IN  WeightsOk(shared_metadata_map_mut(st, map_insert(sm, KEY_NOVELTY, meta2)),
                  into_pairs(meta2.novelties, DOMAIN meta2.novelties))

\* the new count is stored only when the subtraction succeeded
NoveltySearchInner_get_weights_checks_first(st) ==
    LET curr_idx == current_state_idx(st)
        curr_cnt == count_non_zero(history_of(named_metadata_map(st)))
        sm == shared_metadata_map(st)
        meta == sm[KEY_NOVELTY]
        prev_cnt == IF curr_idx \in DOMAIN meta.index_counts
                    THEN meta.index_counts[curr_idx] ELSE 0
        meta2 == [meta EXCEPT
                    !.index_counts = map_insert(@, curr_idx, curr_cnt),
                    !.novelties = map_insert(@, curr_idx, curr_cnt - prev_cnt)]
    IN  IF curr_cnt >= prev_cnt
        THEN WeightsOk(shared_metadata_map_mut(st, map_insert(sm, KEY_NOVELTY, meta2)),
                       into_pairs(meta2.novelties, DOMAIN meta2.novelties))
        ELSE WeightsErr(st, "IllegalState")

NoveltySearchInner_get_weights(st) ==
    LET curr_idx == current_state_idx(st)
        nm == named_metadata_map(st)
        sm == shared_metadata_map(st)
    IN  IF ~map_has(nm, KEY_HISTORY)
        THEN WeightsErr(st, "IllegalState")
        ELSE IF ~map_has(sm, KEY_NOVELTY)
        THEN WeightsErr(st, "KeyNotFound")
        ELSE LET curr_cnt == count_non_zero(history_of(nm))
                 meta == sm[KEY_NOVELTY]
                 \* index_counts.insert(curr_idx, curr_cnt).unwrap_or(0)
                 prev_cnt == IF curr_idx \in DOMAIN meta.index_counts
                             THEN meta.index_counts[curr_idx] ELSE 0
                 meta1 == [meta EXCEPT !.index_counts = map_insert(@, curr_idx, curr_cnt)]
             IN  \* curr_cnt.checked_sub(prev_cnt)
                 IF curr_cnt >= prev_cnt
                 THEN LET meta2 == [meta1 EXCEPT !.novelties =
                                       map_insert(@, curr_idx, curr_cnt - prev_cnt)]
                      IN  WeightsOk(shared_metadata_map_mut(st,
                                        map_insert(sm, KEY_NOVELTY, meta2)),
                                    into_pairs(meta2.novelties, DOMAIN meta2.novelties))
                 ELSE WeightsErr(shared_metadata_map_mut(st,
                                     map_insert(sm, KEY_NOVELTY, meta1)),
                                 "IllegalState")

NoveltySearchAndOutgoingEdges_get_weights(st) ==
    LET then(ns_weights) ==
            IF ~ns_weights.ok
            THEN ns_weights
            ELSE IF sum_weights(ns_weights.pairs) # 0
            THEN ns_weights
            ELSE OutgoingEdges_get_weights(ns_weights.state)
    IN  then(NoveltySearchInner_get_weights(st))

\* NoveltySearchInner::new: for_each(add_shared_metadata unless present)
NoveltySearchInner_new(st) ==
    IF map_has(shared_metadata_map(st), KEY_NOVELTY)
    THEN st
    ELSE shared_metadata_map_mut(st,
             map_insert(shared_metadata_map(st), KEY_NOVELTY,
                        NoveltyIsBetterMetadata_default))

get_weights(kind, st) ==
    CASE kind = "OutgoingEdges" -> OutgoingEdges_get_weights(st)
      [] kind = "NoveltySearchInner" -> NoveltySearchInner_get_weights(st)
      [] kind = "NoveltySearchAndOutgoingEdges" ->
            NoveltySearchAndOutgoingEdges_get_weights(st)

\* StateScheduler::choose_next_state (the default) and Cycler's own
StateScheduler_choose_next_state(kind, st, r) ==
    IF kind = "Cycler"
    THEN Cycler_choose_next_state(st)
    ELSE LET then(weight_pairs) ==
                IF ~weight_pairs.ok
                THEN SchedErr(weight_pairs.state, weight_pairs.err)
                ELSE SchedOk(weight_pairs.state,
                             weighted_choice(weight_pairs.pairs, r))
         IN  then(get_weights(kind, st))

(***************************************************************************)
(* UnusedFirst::choose_next_state                                          *)
(***************************************************************************)
WithCalls(res, calls, inner_res) ==
    [res EXCEPT !.calls = calls,
                !.inner = [ok |-> inner_res.ok, idx |-> inner_res.idx,
                           err |-> inner_res.err]]

\* the scan runs from the highest id down
RECURSIVE unused_scan_descending(_, _, _, _, _)
unused_scan_descending(st, idx, curr_idx, inner_res, calls) ==
    LET k == states_len(st) - 1 - idx
    IN  IF idx >= states_len(st)
        THEN WithCalls([inner_res EXCEPT !.state = st], calls, inner_res)
        ELSE LET sw == switch_state(st, k)
                 looked == Append(calls, k)
             IN  IF fuzz_cycles(sw.state) = 0
                 THEN WithCalls(SchedOk(switch_state(sw.state, curr_idx).state, k),
                                looked, inner_res)
                 ELSE unused_scan_descending(sw.state, idx + 1, curr_idx,
                                             inner_res, looked)

\* an error of the inner scheduler is returned before the states are looked at
RECURSIVE unused_scan_inner_first(_, _, _, _, _)
unused_scan_inner_first(st, idx, curr_idx, inner_res, calls) ==
    IF ~inner_res.ok \/ idx >= states_len(st)
    THEN WithCalls([inner_res EXCEPT !.state = st], calls, inner_res)
    ELSE LET sw == switch_state(st, idx)
             looked == Append(calls, idx)
         IN  IF fuzz_cycles(sw.state) = 0
             THEN WithCalls(SchedOk(switch_state(sw.state, curr_idx).state, idx),
                            looked, inner_res)
             ELSE unused_scan_inner_first(sw.state, idx + 1, curr_idx,
                                          inner_res, looked)

\* for idx in 0..state.states_len() { ... }; inner_res
RECURSIVE unused_scan(_, _, _, _, _)
unused_scan(st, idx, curr_idx, inner_res, calls) ==
    IF idx >= states_len(st)
    THEN WithCalls([inner_res EXCEPT !.state = st], calls, inner_res)
    ELSE LET sw == switch_state(st, idx)
         IN  IF ~sw.ok
             THEN WithCalls(SchedErr(sw.state, sw.err), calls, inner_res)
             ELSE LET looked == Append(calls, idx)
                  IN  IF fuzz_cycles(sw.state) = 0
                      THEN LET back == switch_state(sw.state, curr_idx)
                           IN  IF ~back.ok
                               THEN WithCalls(SchedErr(back.state, back.err),
                                              looked, inner_res)
                               ELSE WithCalls(SchedOk(back.state, idx),
                                              looked, inner_res)
                      ELSE unused_scan(sw.state, idx + 1, curr_idx, inner_res, looked)

UnusedFirst_choose_next_state(kind, st, r) ==
    LET then(inner_res) ==
            LET curr_idx == current_state_idx(inner_res.state)
            IN  unused_scan(inner_res.state, 0, curr_idx, inner_res, <<-1>>)
    IN  then(StateScheduler_choose_next_state(kind, st, r))

\* the scheduler object: UnusedFirst(inner) or inner alone
Scheduler(unused_first, kind) == [unused_first |-> unused_first, inner |-> kind]

Schedulers ==
    { Scheduler(FALSE, "Cycler"), Scheduler(FALSE, "OutgoingEdges"),
      Scheduler(TRUE, "Cycler"), Scheduler(TRUE, "OutgoingEdges"),
      Scheduler(TRUE, "NoveltySearchInner"),
      Scheduler(TRUE, "NoveltySearchAndOutgoingEdges") }

choose_next_state(s, st, r) ==
    IF s.unused_first
    THEN UnusedFirst_choose_next_state(s.inner, st, r)
    ELSE StateScheduler_choose_next_state(s.inner, st, r)

(***************************************************************************)
(* The forkserver executor and its StatefulPersistentExecutor wrapper.     *)
(* status is what the last status word says of the child: "exited",        *)
(* "signaled" or "stopped".  forks and child_stopped belong to the         *)
(* forkserver in the target: the number of children it has forked (the PID *)
(* of a child is its number) and whether it holds a stopped child.         *)
(***************************************************************************)
KEY_TIMEOUTS == "StatefulPersistentExecutorMeta"

\* An execution returns the ExitKind "Ok", "Crash" or "Timeout", or an error:
\* "EINTR" (Error::Unknown("Unix error: EINTR")), "Connection" (Error::File
\* of the connection family), "TimedOut" (Error::File of kind TimedOut),
\* "Other" (any other error).

(***************************************************************************)
(* RequestResponseCollector: trace_no, the number of the file the writer   *)
(* has open, and the trace files by number + 1, each the sequence of the   *)
(* pairs written to it.  A pair is kept as the PID of the child that       *)
(* answered and the ExitKind of the execution.                             *)
(***************************************************************************)
RequestResponseCollector_new ==
    [trace_no |-> 0, writer |-> 0, files |-> << <<>> >>]

RequestResponsePair(pid, exit_kind) == [pid |-> pid, exit_kind |-> exit_kind]

write_pair(c, pair) == [c EXCEPT !.files[c.writer + 1] = Append(@, pair)]

\* the trace number is left as it is
save_this_trace_in_place(c) == c

save_this_trace(c) == [c EXCEPT !.trace_no = c.trace_no + 1]

\* the file of the current trace number is created or truncated and
\* becomes the file the writer has open
start_new_trace(c) ==
    [c EXCEPT !.writer = c.trace_no,
              !.files = IF c.trace_no + 1 <= Len(@)
                        THEN [@ EXCEPT ![c.trace_no + 1] = <<>>]
                        ELSE Append(@, <<>>)]

\* request_response_collector: None or Some(collector)
StatefulPersistentExecutor_with(collector) ==
    [ child_pid |-> None,
      last_run_timed_out |-> FALSE,
      status |-> "exited",
      forks |-> 0,
      child_stopped |-> FALSE,
      state_reset_occurred |-> FALSE,
      child_was_reset |-> FALSE,
      request_response_collector |-> collector ]

StatefulPersistentExecutor_new == StatefulPersistentExecutor_with(None)

\* fired: the UserStats events handed to the manager, by their value
\* steps: the steps of the execution that were begun, in their order
ExecOk(ex, st, exit_kind) ==
    [ok |-> TRUE, exit_kind |-> exit_kind, err |-> "none", executor |-> ex,
     state |-> st, fired |-> <<>>, steps |-> <<>>]
ExecErr(ex, st, kind) ==
    [ok |-> FALSE, exit_kind |-> "none", err |-> kind, executor |-> ex,
     state |-> st, fired |-> <<>>, steps |-> <<>>]
WithSteps(res, steps) == [res EXCEPT !.steps = steps]

\* the child is killed whatever the last-run-timed-out flag says
reset_target_state_unchecked(ex) ==
    [ok |-> TRUE, err |-> "none",
     executor |-> [ex EXCEPT !.last_run_timed_out = (@ \/ is_some(ex.child_pid)),
                             !.child_pid = None,
                             !.child_was_reset = TRUE,
                             !.state_reset_occurred = FALSE],
     signal |-> ex.child_pid]

\* the forkserver is not told that the child was killed
reset_target_state_untold(ex) ==
    IF is_some(ex.child_pid) /\ ex.last_run_timed_out
    THEN [ok |-> FALSE, err |-> "IllegalState", executor |-> ex, signal |-> None]
    ELSE [ok |-> TRUE, err |-> "none",
          executor |-> [ex EXCEPT !.child_pid = None,
                                  !.child_was_reset = TRUE,
                                  !.state_reset_occurred = FALSE],
          signal |-> ex.child_pid]

\* the state_reset_occurred flag is left as it is
reset_target_state_keeps_flag(ex) ==
    IF is_some(ex.child_pid) /\ ex.last_run_timed_out
    THEN [ok |-> FALSE, err |-> "IllegalState", executor |-> ex, signal |-> None]
    ELSE [ok |-> TRUE, err |-> "none",
          executor |-> [ex EXCEPT
                          !.last_run_timed_out = (@ \/ is_some(ex.child_pid)),
                          !.child_pid = None,
                          !.child_was_reset = TRUE],
          signal |-> ex.child_pid]

\* signal: the PID that kill(.., SIGKILL) was called for, if any
reset_target_state(ex) ==
    LET timed_out == ex.last_run_timed_out
    IN  IF is_some(ex.child_pid) /\ timed_out
        THEN [ok |-> FALSE, err |-> "IllegalState", executor |-> ex, signal |-> None]
        ELSE LET killed == IF is_some(ex.child_pid)
                           THEN [ex EXCEPT !.last_run_timed_out = TRUE,
                                           !.child_pid = None]
                           ELSE ex
             IN  [ok |-> TRUE, err |-> "none",
                  executor |-> [killed EXCEPT !.child_was_reset = TRUE,
                                              !.state_reset_occurred = FALSE],
                  signal |-> ex.child_pid]

\* the word written on the control pipe
last_run_timed_out_raw(ex) == IF ex.last_run_timed_out THEN 1 ELSE 0

\* the flag is read and left as it is
state_reset_occurred_peek(ex) ==
    [result |-> ex.state_reset_occurred, executor |-> ex]

state_reset_occurred(ex) ==
    [result |-> ex.state_reset_occurred,
     executor |-> [ex EXCEPT !.state_reset_occurred = FALSE]]

(***************************************************************************)
(* What the forkserver and the target do during one execution:             *)
(*   at    "ctl" / "pid" / "socket" / "status" / "after_kill": the step    *)
(*         that fails with the error kind err ("after_kill": the status    *)
(*         read that follows the kill of a timed-out child);               *)
(*         "stopped" / "exited" / "signaled": the status word that arrives *)
(*         in time; "timeout": no status word in time, the one after the   *)
(*         kill arrives and says that the child was terminated;            *)
(*         "timeout_stopped": no status word in time, the one after the    *)
(*         kill says that the child is stopped (the kill signal, SIGTERM   *)
(*         unless configured, was handled or is still pending)             *)
(*   hit   the map position the execution covers for the first time (0:    *)
(*         none; only executions that end with the child stopped are given *)
(*         one)                                                            *)
(***************************************************************************)
Outcome(at, err, hit) == [at |-> at, err |-> err, hit |-> hit]

FailurePoints == {"ctl", "pid", "socket", "status", "after_kill"}

\* the failures the model lets happen: an interrupted or timed-out write of
\* the control word, a bad PID word, a refused or reset connection, an
\* interrupted status read, no or an interrupted status read after the kill
Failures ==
    { <<"ctl", "EINTR">>, <<"ctl", "TimedOut">>, <<"pid", "Other">>,
      <<"socket", "Connection">>, <<"status", "EINTR">>,
      <<"after_kill", "TimedOut">>, <<"after_kill", "EINTR">> }

\* the outcomes in which read_st_timed returns None at the end of the
\* per-execution timeout
NoStatusInTime == {"timeout", "timeout_stopped", "after_kill"}

\* the executions that return a classification: the status word arrives in
\* time or after the kill
Classified ==
    { Outcome(at, "none", 0) :
        at \in {"stopped", "exited", "signaled", "timeout", "timeout_stopped"} }

Outcomes ==
    { Outcome("stopped", "none", hit) : hit \in 0..MapLen }
    \cup { Outcome(at, "none", 0) : at \in {"exited", "signaled", "timeout"} }
    \cup { Outcome(f[1], f[2], 0) : f \in Failures }

\* the counter is incremented only when the execution returns a classification
ForkserverExecutor_run_target_counts_late(ex, st, o) ==
    IF o.at \in FailurePoints
    THEN ExecErr(ex, st, o.err)
    ELSE ExecOk([ex EXCEPT !.last_run_timed_out = (o.at = "timeout"),
                           !.child_pid = IF o.at = "stopped" THEN Some(ex.forks) ELSE None],
                executions_mut(st, executions(st) + 1),
                CASE o.at = "signaled" -> "Crash"
                  [] o.at = "timeout" -> "Timeout"
                  [] OTHER -> "Ok")

\* The steps of one execution in socket-client mode: "ctl" write_ctl_timed,
\* "pid" read_st_timed of the PID, "socket" client_connect and write_all,
\* "status" read_st_timed of the status, "kill" and "status_after_kill" for
\* a child that ran into the timeout, "response" the read of the response
\* for the trace collector.

\* the input is written to the socket before the forkserver is asked for a
\* child
StepsUntil_socket_first(at, collecting) ==
    CASE at = "ctl" -> <<"socket", "ctl">>
      [] at = "pid" -> <<"socket", "ctl", "pid">>
      [] at = "socket" -> <<"socket">>
      [] at = "status" -> <<"socket", "ctl", "pid", "status">>
      [] at = "after_kill" ->
            <<"socket", "ctl", "pid", "status", "kill", "status_after_kill">>
      [] at \in {"timeout", "timeout_stopped"} ->
            <<"socket", "ctl", "pid", "status", "kill", "status_after_kill">>
            \o (IF collecting THEN <<"response">> ELSE <<>>)
      [] OTHER ->
            <<"socket", "ctl", "pid", "status">>
            \o (IF collecting THEN <<"response">> ELSE <<>>)

StepsUntil(at, collecting) ==
    CASE at = "ctl" -> <<"ctl">>
      [] at = "pid" -> <<"ctl", "pid">>
      [] at = "socket" -> <<"ctl", "pid", "socket">>
      [] at = "status" -> <<"ctl", "pid", "socket", "status">>
      [] at = "after_kill" ->
            <<"ctl", "pid", "socket", "status", "kill", "status_after_kill">>
      [] at \in {"timeout", "timeout_stopped"} ->
            <<"ctl", "pid", "socket", "status", "kill", "status_after_kill">>
            \o (IF collecting THEN <<"response">> ELSE <<>>)
      [] OTHER ->
            <<"ctl", "pid", "socket", "status">>
            \o (IF collecting THEN <<"response">> ELSE <<>>)

\* At the end of each run: write the pair, keep the trace of a crash
collect(ex, exit_kind) ==
    IF is_none(ex.request_response_collector)
    THEN ex
    ELSE LET written == write_pair(unwrap(ex.request_response_collector),
                                   RequestResponsePair(ex.forks, exit_kind))
         IN  [ex EXCEPT !.request_response_collector =
                Some(IF exit_kind = "Crash" THEN save_this_trace(written)
                     ELSE written)]

\* the PID of a child that was killed after the timeout stays recorded
ForkserverExecutor_run_target_keeps_pid(ex, st, o) ==
    LET st1 == executions_mut(st, executions(st) + 1)
        collecting == is_some(ex.request_response_collector)
        \* The child is killed for some reason, will start a new trace
        ex0 == IF is_none(ex.child_pid) /\ collecting
               THEN [ex EXCEPT !.request_response_collector =
                        Some(start_new_trace(unwrap(@)))]
               ELSE ex
        \* the forkserver resumes its stopped child unless the control word
        \* says that the child was killed
        resumed == ex.child_stopped /\ ~ex.last_run_timed_out
        pid == IF resumed THEN ex.forks ELSE ex.forks + 1
        \* write_ctl_timed, set_last_run_timed_out(false)
        ex1 == [ex0 EXCEPT !.last_run_timed_out = FALSE, !.forks = pid,
                           !.child_stopped = FALSE]
        \* read_st_timed, set_child_pid
        ex2 == [ex1 EXCEPT !.child_pid = Some(pid)]
        steps == StepsUntil(o.at, collecting)
    IN  CASE o.at = "ctl" -> WithSteps(ExecErr(ex0, st1, o.err), steps)
          [] o.at = "pid" -> WithSteps(ExecErr(ex1, st1, o.err), steps)
          [] o.at = "socket" -> WithSteps(ExecErr(ex2, st1, o.err), steps)
          [] o.at = "status" -> WithSteps(ExecErr(ex2, st1, o.err), steps)
          [] o.at = "after_kill" ->
                WithSteps(ExecErr([ex2 EXCEPT !.last_run_timed_out = TRUE],
                                  st1, o.err), steps)
          [] o.at = "timeout" ->
                WithSteps(ExecOk([collect(ex2, "Timeout") EXCEPT
                                    !.last_run_timed_out = TRUE,
                                    !.status = "signaled"],
                                 st1, "Timeout"), steps)
          [] o.at = "timeout_stopped" ->
                WithSteps(ExecOk([collect(ex2, "Timeout") EXCEPT
                                    !.last_run_timed_out = TRUE,
                                    !.status = "stopped",
                                    !.child_stopped = TRUE],
                                 st1, "Timeout"), steps)
          [] o.at = "signaled" ->
                WithSteps(ExecOk([collect(ex2, "Crash") EXCEPT
                                    !.status = "signaled", !.child_pid = None],
                                 st1, "Crash"), steps)
          [] o.at = "exited" ->
                WithSteps(ExecOk([collect(ex2, "Ok") EXCEPT
                                    !.status = "exited", !.child_pid = None],
                                 st1, "Ok"), steps)
          [] o.at = "stopped" ->
                WithSteps(ExecOk([collect(ex2, "Ok") EXCEPT
                                    !.status = "stopped", !.child_stopped = TRUE],
                                 st1, "Ok"), steps)

\* the status word that arrives after the kill is classified like one that
\* arrives in time
ForkserverExecutor_run_target_by_status(ex, st, o) ==
    LET st1 == executions_mut(st, executions(st) + 1)
        collecting == is_some(ex.request_response_collector)
        \* The child is killed for some reason, will start a new trace
        ex0 == IF is_none(ex.child_pid) /\ collecting
               THEN [ex EXCEPT !.request_response_collector =
                        Some(start_new_trace(unwrap(@)))]
               ELSE ex
        \* the forkserver resumes its stopped child unless the control word
        \* says that the child was killed
        resumed == ex.child_stopped /\ ~ex.last_run_timed_out
        pid == IF resumed THEN ex.forks ELSE ex.forks + 1
        \* write_ctl_timed, set_last_run_timed_out(false)
        ex1 == [ex0 EXCEPT !.last_run_timed_out = FALSE, !.forks = pid,
                           !.child_stopped = FALSE]
        \* read_st_timed, set_child_pid
        ex2 == [ex1 EXCEPT !.child_pid = Some(pid)]
        steps == StepsUntil(o.at, collecting)
    IN  CASE o.at = "ctl" -> WithSteps(ExecErr(ex0, st1, o.err), steps)
          [] o.at = "pid" -> WithSteps(ExecErr(ex1, st1, o.err), steps)
          [] o.at = "socket" -> WithSteps(ExecErr(ex2, st1, o.err), steps)
          [] o.at = "status" -> WithSteps(ExecErr(ex2, st1, o.err), steps)
          [] o.at = "after_kill" ->
                WithSteps(ExecErr([ex2 EXCEPT !.last_run_timed_out = TRUE],
                                  st1, o.err), steps)
          [] o.at = "timeout" ->
                WithSteps(ExecOk([collect(ex2, "Crash") EXCEPT
                                    !.last_run_timed_out = TRUE,
                                    !.status = "signaled",
                                    !.child_pid = None],
                                 st1, "Crash"), steps)
          [] o.at = "timeout_stopped" ->
                WithSteps(ExecOk([collect(ex2, "Ok") EXCEPT
                                    !.last_run_timed_out = TRUE,
                                    !.status = "stopped",
                                    !.child_stopped = TRUE],
                                 st1, "Ok"), steps)
          [] o.at = "signaled" ->
                WithSteps(ExecOk([collect(ex2, "Crash") EXCEPT
                                    !.status = "signaled", !.child_pid = None],
                                 st1, "Crash"), steps)
          [] o.at = "exited" ->
                WithSteps(ExecOk([collect(ex2, "Ok") EXCEPT
                                    !.status = "exited", !.child_pid = None],
                                 st1, "Ok"), steps)
          [] o.at = "stopped" ->
                WithSteps(ExecOk([collect(ex2, "Ok") EXCEPT
                                    !.status = "stopped", !.child_stopped = TRUE],
                                 st1, "Ok"), steps)

ForkserverExecutor_run_target(ex, st, o) ==
    LET st1 == executions_mut(st, executions(st) + 1)
        collecting == is_some(ex.request_response_collector)
        \* The child is killed for some reason, will start a new trace
        ex0 == IF is_none(ex.child_pid) /\ collecting
               THEN [ex EXCEPT !.request_response_collector =
                        Some(start_new_trace(unwrap(@)))]
               ELSE ex
        \* the forkserver resumes its stopped child unless the control word
        \* says that the child was killed
        resumed == ex.child_stopped /\ ~ex.last_run_timed_out
        pid == IF resumed THEN ex.forks ELSE ex.forks + 1
        \* write_ctl_timed, set_last_run_timed_out(false)
        ex1 == [ex0 EXCEPT !.last_run_timed_out = FALSE, !.forks = pid,
                           !.child_stopped = FALSE]
        \* read_st_timed, set_child_pid
        ex2 == [ex1 EXCEPT !.child_pid = Some(pid)]
        steps == StepsUntil(o.at, collecting)
    IN  CASE o.at = "ctl" -> WithSteps(ExecErr(ex0, st1, o.err), steps)
          [] o.at = "pid" -> WithSteps(ExecErr(ex1, st1, o.err), steps)
          [] o.at = "socket" -> WithSteps(ExecErr(ex2, st1, o.err), steps)
          [] o.at = "status" -> WithSteps(ExecErr(ex2, st1, o.err), steps)
          [] o.at = "after_kill" ->
                WithSteps(ExecErr([ex2 EXCEPT !.last_run_timed_out = TRUE],
                                  st1, o.err), steps)
          [] o.at = "timeout" ->
                WithSteps(ExecOk([collect(ex2, "Timeout") EXCEPT
                                    !.last_run_timed_out = TRUE,
                                    !.status = "signaled",
                                    !.child_pid = None],
                                 st1, "Timeout"), steps)
          [] o.at = "timeout_stopped" ->
                WithSteps(ExecOk([collect(ex2, "Timeout") EXCEPT
                                    !.last_run_timed_out = TRUE,
                                    !.status = "stopped",
                                    !.child_stopped = TRUE],
                                 st1, "Timeout"), steps)
          [] o.at = "signaled" ->
                WithSteps(ExecOk([collect(ex2, "Crash") EXCEPT
                                    !.status = "signaled", !.child_pid = None],
                                 st1, "Crash"), steps)
          [] o.at = "exited" ->
                WithSteps(ExecOk([collect(ex2, "Ok") EXCEPT
                                    !.status = "exited", !.child_pid = None],
                                 st1, "Ok"), steps)
          [] o.at = "stopped" ->
                WithSteps(ExecOk([collect(ex2, "Ok") EXCEPT
                                    !.status = "stopped", !.child_stopped = TRUE],
                                 st1, "Ok"), steps)

\* send timeouts events, but not too often
TIMEOUTS_EVENT_EVERY == 20

fires_timeouts_event_always(timeouts) == TRUE

fires_timeouts_event(timeouts) ==
    timeouts < TIMEOUTS_EVENT_EVERY \/ timeouts % TIMEOUTS_EVENT_EVERY = 0

\* a Timeout is counted but the prefix is not asked for again
run_target_keeps_quiet(ex, st, o) ==
    LET then(result) ==
            LET ex1 == [result.executor EXCEPT !.child_was_reset = FALSE]
            IN  IF result.ok /\ result.exit_kind = "Timeout"
                THEN LET m == metadata_map(result.state)
                         timeouts == IF map_has(m, KEY_TIMEOUTS)
                                     THEN m[KEY_TIMEOUTS] ELSE 0
                     IN  [result EXCEPT
                            !.executor = ex1,
                            !.state = metadata_map_mut(result.state,
                                          map_insert(m, KEY_TIMEOUTS, timeouts + 1)),
                            !.fired = IF fires_timeouts_event(timeouts + 1)
                                      THEN <<timeouts + 1>> ELSE <<>>]
                ELSE [result EXCEPT !.executor = ex1]
    IN  then(ForkserverExecutor_run_target(ex, st, o))

\* StatefulPersistentExecutor::run_target
run_target(ex, st, o) ==
    LET then(result) ==
            LET ex1 == [result.executor EXCEPT !.child_was_reset = FALSE]
            IN  IF result.ok /\ result.exit_kind = "Timeout"
                THEN LET m == metadata_map(result.state)
                         timeouts == IF map_has(m, KEY_TIMEOUTS)
                                     THEN m[KEY_TIMEOUTS] ELSE 0
                     IN  [result EXCEPT
                            !.executor = [ex1 EXCEPT !.state_reset_occurred = TRUE],
                            !.state = metadata_map_mut(result.state,
                                          map_insert(m, KEY_TIMEOUTS, timeouts + 1)),
                            !.fired = IF fires_timeouts_event(timeouts + 1)
                                      THEN <<timeouts + 1>> ELSE <<>>]
                ELSE [result EXCEPT !.executor = ex1]
    IN  then(ForkserverExecutor_run_target(ex, st, o))

(***************************************************************************)
(* Evaluator::evaluate_input as the fuzz loop uses it: one execution, then *)
(* the MaxMapFeedback folds the observed map into the history map of the   *)
(* routed named metadata unless the execution is a solution (an execution  *)
(* that crashed is taken to be one).                                       *)
(***************************************************************************)
evaluate_input(st, ex, o) ==
    LET then(res) ==
            LET nm == named_metadata_map(res.state)
                h == history_resized(history_of(nm))
            IN  IF res.ok /\ res.exit_kind # "Crash"
                THEN [res EXCEPT !.state =
                        named_metadata_map_mut(res.state,
                            map_insert(nm, KEY_HISTORY,
                                       IF o.hit = 0 THEN h ELSE history_hit(h, o.hit)))]
                ELSE res
    IN  then(run_target(ex, st, o))

(***************************************************************************)
(* LibAFLStarState::calculate_total_coverage                               *)
(***************************************************************************)
Max(a, b) == IF a >= b THEN a ELSE b

\* the maps are merged up to the length of the first one
RECURSIVE merge_maps_unresized(_, _, _)
merge_maps_unresized(st, k, total_map) ==
    IF k > Len(st.inner)
    THEN total_map
    ELSE LET map == history_of(unwrap(st.inner[k].named_metadata))
             len == IF k = 1 THEN Len(map) ELSE Len(total_map)
         IN  merge_maps_unresized(st, k + 1,
                [p \in 1..len |->
                    Max(IF p <= Len(total_map) THEN total_map[p] ELSE 0,
                        IF p <= Len(map) THEN map[p] ELSE 0)])

RECURSIVE merge_maps(_, _, _)
merge_maps(st, k, total_map) ==
    IF k > Len(st.inner)
    THEN total_map
    ELSE LET map == history_of(unwrap(st.inner[k].named_metadata))
             len == Max(Len(total_map), Len(map))
         IN  merge_maps(st, k + 1,
                [p \in 1..len |->
                    Max(IF p <= Len(total_map) THEN total_map[p] ELSE 0,
                        IF p <= Len(map) THEN map[p] ELSE 0)])

calculate_total_coverage(st) ==
    LET total_map ==
            IF st.access_mode \in {"SingleCorp", "MultiCorpSingleMeta"}
            THEN history_of(st.shared_named_metadata)
            ELSE merge_maps(st, 1, <<>>)
    IN  [covered |-> count_non_zero(total_map), total |-> Len(total_map)]

(***************************************************************************)
(* The container driven through its public operations.                     *)
(***************************************************************************)
\* Prefix k: k messages (at most MaxPrefixLen), outgoing_edges 2k + 1
\* (1, 3, 5, ...).
MkPrefix(k) ==
    [ prefix |-> [m \in 1..(IF k < MaxPrefixLen THEN k ELSE MaxPrefixLen) |-> k],
      metadata |-> [outgoing_edges |-> 2 * k + 1] ]
MkPrefixes(n) == [k \in 1..n |-> MkPrefix(k - 1)]
MkCorpora(n) == [k \in 1..n |-> <<>>]

Closure(kind, fail_at) == [kind |-> kind, fail_at |-> fail_at]

CtorPending == [status |-> "pending", access_mode |-> "none", corpora |-> 0, prefixes |-> 0]
NoLast == [op |-> "none", arg |-> 0, ok |-> TRUE, at |-> 0, pre |-> NoState,
           calls |-> <<>>, vals |-> <<>>, fail_at |-> -1]
DetourIdle == [phase |-> 0, i |-> 0, j |-> 0, before |-> NoState]

DetourStep(d, op, arg, ok, pre) ==
    IF op = "switch_state" /\ ok
    THEN CASE d.phase \in {0, 3} -> [phase |-> 1, i |-> arg, j |-> 0, before |-> pre]
           [] d.phase = 1 -> [d EXCEPT !.phase = 2, !.j = arg]
           [] d.phase = 2 ->
                IF arg = d.i
                THEN [d EXCEPT !.phase = 3]
                ELSE [phase |-> 1, i |-> arg, j |-> 0, before |-> pre]
    ELSE DetourIdle

\* the fuzz loop and weighted_choice are not running
NoScheduler == [unused_first |-> FALSE, inner |-> "none"]
\* final_stats: the active id at each exec-stats event of the final for_each;
\* of main: the forkserver recreations counted, the lines printed and the
\* exit status of the process once it has ended
PcIdle == [at |-> "idle", loops |-> 0, new_state_idx |-> 0, i |-> 0, k |-> 0,
           ret |-> "none", best_edge_coverage |-> 0, result |-> "none",
           final_stats |-> <<>>,
           recreations |-> 0, printed |-> <<>>, exit_status |-> None]
NoChoose == [called |-> FALSE, pre_idx |-> 0, post_idx |-> 0, cycles |-> <<>>,
             calls |-> <<>>, inner |-> NoInner, ok |-> TRUE, idx |-> 0,
             err |-> "none"]
\* what the observer keeps of the last call of the executor: the executor
\* before it (pre), what it returned, the timeouts counter before and after,
\* the events fired, the PID signalled, the PID the latest successful reset
\* signalled (killed), the call before it, and whether an execution was
\* classified Timeout since state_reset_occurred last returned true (before
\* the call: had_timeout, after it: timeout_since_true); and whether, since
\* the latest control word was written, an execution got no status in time
\* or a reset killed a recorded child (unreported)
NoCall == [op |-> "none", ok |-> TRUE, exit_kind |-> "none", err |-> "none",
           result |-> FALSE, pre |-> StatefulPersistentExecutor_new,
           pre_timeouts |-> 0, timeouts |-> 0, fired |-> <<>>, steps |-> <<>>,
           at |-> "none", signal |-> None,
           killed |-> None, prev_op |-> "none", prev_ok |-> TRUE,
           prev_result |-> FALSE,
           had_timeout |-> FALSE, timeout_since_true |-> FALSE,
           unreported |-> FALSE]
\* what the observer keeps of the latest fuzz_one: whether its execution
\* returned a classification (called) and which (kind), whether the input
\* went to a newly forked child (fresh), how many messages of the prefix
\* that child had received (fed) of how many (need), and whether an
\* execution had been classified Timeout since the latest send_prefix began
\* (stale)
NoMut == [called |-> FALSE, kind |-> "none", fresh |-> FALSE, fed |-> 0,
          need |-> 0, stale |-> FALSE]
\* of the current cycle: fuzz_cycles of the state when it began, the
\* classifications of its fuzz_one calls, the send_prefix calls begun (sends)
\* and those begun since the latest fuzz_one (resends), and whether an
\* execution of a send_prefix was classified Timeout
NoCycle == [cycles_before |-> 0, kinds |-> <<>>, sends |-> 0, resends |-> 0,
            prefix_timeouts |-> FALSE]
\* fed: the messages of the prefix the stopped child has received, in order
\* from the first one (-1: it received something else); stale: an execution
\* was classified Timeout since the latest send_prefix began
\* the inner operation of the current outer iteration that failed
\* ("change": change_target_state, "fuzz": fuzz_one, "resend": the
\* send_prefix of the inner loop) and the kind of its error
NoFailure == [op |-> "none", err |-> "none"]
Failure(op, err) == [op |-> op, err |-> err]
ObsIdle == [runs |-> 0, npicks |-> 0, picks |-> <<>>, changes_ok |-> TRUE,
            choose |-> NoChoose, seen |-> <<>>, call |-> NoCall,
            fed |-> 0, stale |-> FALSE, mut |-> NoMut, cycle |-> NoCycle,
            failure |-> NoFailure]
NoChoice == [weight_pairs |-> <<>>, drawn |-> FALSE, r |-> 0, result |-> 0]

LoopIdle ==
    /\ sched = NoScheduler
    /\ executor = StatefulPersistentExecutor_new
    /\ pc = PcIdle
    /\ quitting = FALSE
    /\ obs = ObsIdle

ApiIdle ==
    /\ last = NoLast
    /\ detour = DetourIdle
    /\ writes = <<>>
    /\ ops = 0

Init ==
    /\ state = NoState
    /\ ctor = CtorPending
    /\ ApiIdle
    /\ LoopIdle
    /\ choice = NoChoice

\* One call of a container operation: op(arg) returned ok and left st2.
Called(op, arg, ok, st2, calls, vals, fail_at, mutating) ==
    /\ state' = st2
    /\ last' = [op |-> op, arg |-> arg, ok |-> ok,
                at |-> IF op \in {"for_each", "map_to_vec"} THEN state.idx ELSE 0,
                pre |-> IF ok THEN NoState ELSE state,
                calls |-> calls, vals |-> vals, fail_at |-> fail_at]
    /\ detour' = DetourStep(detour, op, arg, ok, [state EXCEPT !.idx = 0])
    /\ ops' = IF mutating THEN ops + 1 ELSE ops
    /\ UNCHANGED <<ctor, loopvars, choice>>

Ready == ctor.status = "ok"
Budget == Ready /\ ops < MaxOps

New ==
    /\ ctor.status = "pending"
    /\ \E mode \in StateAccessMode, np \in 0..MaxStates, nc \in 0..MaxStates,
          fail_at \in -1..(MaxStates - 1) :
        LET r == new_with_access_mode(MkCorpora(nc), MkPrefixes(np), mode,
                                      Closure("init_state", fail_at))
        IN  /\ fail_at < np
            /\ state' = r.state
            /\ ctor' = [status |-> IF r.ok THEN "ok" ELSE "err",
                        access_mode |-> mode, corpora |-> nc, prefixes |-> np]
            /\ last' = [NoLast EXCEPT !.op = "new", !.ok = r.ok, !.fail_at = fail_at]
            /\ UNCHANGED <<detour, writes, ops, loopvars, choice>>

SwitchState ==
    /\ Ready
    /\ \E i \in 0..(MaxStates + 1) :
        LET r == switch_state(state, i)
        IN  Called("switch_state", i, r.ok, r.state, <<>>, <<>>, -1, FALSE)
    /\ UNCHANGED writes

CorpusAdd ==
    /\ Budget
    /\ LET tok == ops + 1
           st2 == corpus_mut(state, Append(corpus(state), tok))
       IN  /\ Called("corpus_add", tok, TRUE, st2, <<>>, <<>>, -1, TRUE)
           /\ writes' = Append(writes, [kind |-> "corpus", at |-> state.idx, tok |-> tok])

AddMetadata ==
    /\ Budget
    /\ LET tok == ops + 1
           m == metadata_map(state)
           old == IF map_has(m, KEY_ANY) THEN m[KEY_ANY] ELSE {}
           st2 == metadata_map_mut(state, map_insert(m, KEY_ANY, old \cup {tok}))
       IN  /\ Called("add_metadata", tok, TRUE, st2, <<>>, <<>>, -1, TRUE)
           /\ writes' = Append(writes, [kind |-> "metadata", at |-> state.idx, tok |-> tok])

AddNamedMetadata ==
    /\ Budget
    /\ ops + 1 <= MapLen
    /\ LET tok == ops + 1
           m == named_metadata_map(state)
           st2 == named_metadata_map_mut(state,
                      map_insert(m, KEY_HISTORY, history_hit(history_of(m), tok)))
       IN  /\ Called("add_named_metadata", tok, TRUE, st2, <<>>, <<>>, -1, TRUE)
           /\ writes' = Append(writes, [kind |-> "named", at |-> state.idx, tok |-> tok])

ImportedInc ==
    /\ Budget
    /\ Called("imported_mut", 0, TRUE, imported_mut(state, imported(state) + 1),
              <<>>, <<>>, -1, TRUE)
    /\ UNCHANGED writes

ExecutionsInc ==
    /\ Budget
    /\ Called("executions_mut", 0, TRUE, executions_mut(state, executions(state) + 1),
              <<>>, <<>>, -1, TRUE)
    /\ UNCHANGED writes

FuzzCyclesInc ==
    /\ Budget
    /\ Called("fuzz_cycles", 0, TRUE, fuzz_cycles_set(state, fuzz_cycles(state) + 1),
              <<>>, <<>>, -1, TRUE)
    /\ UNCHANGED writes

SetCorpusIdx ==
    /\ Budget
    /\ LET r == set_corpus_idx(state, 0)
       IN  Called("set_corpus_idx", 0, r.ok, r.state, <<>>, <<>>, -1, TRUE)
    /\ UNCHANGED writes

SetStage ==
    /\ Budget
    /\ LET r == set_stage(state, 0)
       IN  Called("set_stage", 0, r.ok, r.state, <<>>, <<>>, -1, TRUE)
    /\ UNCHANGED writes

EnterInnerStage ==
    /\ Budget
    /\ LET r == enter_inner_stage(state)
       IN  Called("enter_inner_stage", 0, r.ok, r.state, <<>>, <<>>, -1, TRUE)
    /\ UNCHANGED writes

ForEach ==
    /\ Budget
    /\ \E kind \in {"add_tokens", "fire"}, fail_at \in -1..(MaxStates - 1) :
        LET r == for_each(state, Closure(kind, fail_at))
        IN  /\ fail_at < state.num_states
            /\ Called("for_each", 0, r.ok, r.state, r.calls, r.vals, fail_at, TRUE)
    /\ UNCHANGED writes

MapToVec ==
    /\ Budget
    /\ \E kind \in {"weights"}, fail_at \in -1..(MaxStates - 1) :
        LET r == map_to_vec(state, Closure(kind, fail_at))
        IN  /\ fail_at < state.num_states
            /\ Called("map_to_vec", 0, r.ok, r.state, r.calls, r.vals, fail_at, TRUE)
    /\ UNCHANGED writes

Next ==
    \/ New
    \/ SwitchState
    \/ CorpusAdd
    \/ AddMetadata
    \/ AddNamedMetadata
    \/ ImportedInc
    \/ ExecutionsInc
    \/ FuzzCyclesInc
    \/ SetCorpusIdx
    \/ SetStage
    \/ EnterInnerStage
    \/ ForEach
    \/ MapToVec

Spec == Init /\ [][Next]_vars

(***************************************************************************)
(* fuzz_loop_with_signal_handling.  pc.at is the statement the loop is at: *)
(*   "choose"      state_scheduler.choose_next_state                       *)
(*   "change"      change_target_state: switch_state, reset_target_state   *)
(*   "prefix"      send_prefix, at message k; ret says who called it:      *)
(*                 "change" (change_target_state) or "resend" (the inner   *)
(*                 loop after state_reset_occurred)                        *)
(*   "fuzz"        fuzzer.fuzz_one of inner iteration i                    *)
(*   "after_fuzz"  the checks that follow a fuzz_one that returned Ok      *)
(*   "end_cycle"   the statements after the inner loop                     *)
(*   "final"       the for_each after the outer loop                       *)
(*   "returned"    the function has returned pc.result                     *)
(***************************************************************************)
MaxLoops == 1

\* The loop with a target whose forkserver and socket never fail: more
\* states, more turns of the inner loop and more executions.
CycleStates == 3
CycleLoops == 2
CycleRuns == 8

\* rand.choose draws one of RandRange numbers; the longest list the
\* schedulers build (OutgoingEdges with CycleStates states) has that length
RandRange == CycleStates * (CycleStates + 1)

Returned(p, result) == [p EXCEPT !.at = "returned", !.result = result]

\* a connection error of change_target_state leaves the inner loop only
on_change_error_breaks_inner(p, kind) ==
    CASE kind = "EINTR" -> [p EXCEPT !.at = "final"]
      [] kind = "Connection" -> [p EXCEPT !.at = "end_cycle"]
      [] kind = "TimedOut" -> Returned(p, "ShuttingDown")
      [] OTHER -> Returned(p, "Err")

\* the match on the result of change_target_state
on_change_error(p, kind) ==
    CASE kind = "EINTR" -> [p EXCEPT !.at = "final"]
      [] kind = "Connection" -> [p EXCEPT !.at = "choose"]
      [] kind = "TimedOut" -> Returned(p, "ShuttingDown")
      [] OTHER -> Returned(p, "Err")

\* a connection error is passed on to the caller
on_inner_error_fatal(p, kind) ==
    CASE kind = "EINTR" -> [p EXCEPT !.at = "end_cycle"]
      [] kind = "TimedOut" -> Returned(p, "ShuttingDown")
      [] OTHER -> Returned(p, "Err")

\* the match on the result of fuzz_one and of the send_prefix that follows
\* a state reset: break leaves the inner loop only
on_inner_error(p, kind) ==
    CASE kind \in {"EINTR", "Connection"} -> [p EXCEPT !.at = "end_cycle"]
      [] kind = "TimedOut" -> Returned(p, "ShuttingDown")
      [] OTHER -> Returned(p, "Err")

\* the next turn of for _ in 0..loops
next_iteration(p) ==
    IF p.i + 1 < p.loops
    THEN [p EXCEPT !.at = "fuzz", !.i = p.i + 1]
    ELSE [p EXCEPT !.at = "end_cycle"]

\* the call of fuzz_loop_with_signal_handling with ns the numbers of target
\* states and ls the values of loops tried
InitLoopOf(ns, ls) ==
    /\ \E mode \in StateAccessMode, n \in ns, s \in Schedulers, loops \in ls :
        LET nc == IF mode = "SingleCorp" THEN 1 ELSE n
            r == new_with_access_mode(MkCorpora(nc), MkPrefixes(n), mode,
                                      Closure("init_state", -1))
        IN  /\ state = IF s.inner \in {"NoveltySearchInner",
                                       "NoveltySearchAndOutgoingEdges"}
                       THEN NoveltySearchInner_new(r.state)
                       ELSE r.state
            /\ ctor = [status |-> "ok", access_mode |-> mode,
                       corpora |-> nc, prefixes |-> n]
            /\ sched = s
            /\ pc = [PcIdle EXCEPT !.at = "choose", !.loops = loops]
            /\ obs = [ObsIdle EXCEPT !.seen =
                        [k \in 1..n |-> [n |-> 0, prev |-> <<>>, curr |-> <<>>]]]
    /\ executor = StatefulPersistentExecutor_new
    /\ quitting = FALSE
    /\ ApiIdle
    /\ choice = NoChoice

InitLoop == InitLoopOf(1..MaxStates, 1..MaxLoops)

Running == pc.at \notin {"idle", "returned", "exited"}

\* what the observer keeps of a scheduler call
Chosen(st, res) ==
    [called |-> TRUE,
     pre_idx |-> current_state_idx(st),
     post_idx |-> current_state_idx(res.state),
     cycles |-> [k \in 1..Len(st.inner) |-> st.inner[k].fuzz_cycles],
     calls |-> res.calls, inner |-> res.inner, ok |-> res.ok, idx |-> res.idx,
     err |-> res.err]

\* the forkserver resumes its stopped child for the next execution
Resumed(ex) == ex.child_stopped /\ ~ex.last_run_timed_out

\* what the child that receives the next input has received of the prefix
FedBefore(ex, fed) == IF Resumed(ex) THEN fed ELSE 0

\* what the stopped child has received after the execution res, which was
\* to send it the input that follows `expect` messages of the prefix and
\* makes that `becomes`
FedAfter(ex, fed, res, expect, becomes) ==
    IF ~res.executor.child_stopped
    THEN 0
    ELSE IF ~res.ok
    THEN fed
    ELSE IF FedBefore(ex, fed) = expect THEN becomes ELSE -1

\* the selections made so far, the last N + 1 of them
Picked(picks, idx) ==
    IF Len(picks) <= states_len(state)
    THEN Append(picks, idx)
    ELSE Append(Tail(picks), idx)

\* the history map the novelty search counts in this call
Seen(seen, st) ==
    IF sched.inner \in {"NoveltySearchInner", "NoveltySearchAndOutgoingEdges"}
    THEN [seen EXCEPT ![current_state_idx(st) + 1] =
            [n |-> IF @.n < 2 THEN @.n + 1 ELSE 2,
             prev |-> @.curr,
             curr |-> history_of(named_metadata_map(st))]]
    ELSE seen

ChooseNextState ==
    /\ pc.at = "choose"
    /\ obs.npicks < MaxPicks
    /\ \E r \in 0..(RandRange - 1) :
        LET then(res) ==
                /\ state' = res.state
                /\ pc' = IF res.ok
                         THEN [pc EXCEPT !.at = "change", !.new_state_idx = res.idx]
                         ELSE Returned(pc, "Err")
                /\ obs' = [obs EXCEPT
                             !.npicks = IF res.ok THEN @ + 1 ELSE @,
                             !.picks = IF res.ok THEN Picked(@, res.idx) ELSE @,
                             !.choose = Chosen(state, res),
                             !.seen = Seen(@, state),
                             !.failure = NoFailure]
        IN  then(choose_next_state(sched, state, r))
    /\ UNCHANGED <<sched, executor, quitting, apivars, choice>>

ChangeTargetState ==
    /\ pc.at = "change"
    /\ LET sw == switch_state(state, pc.new_state_idx)
           rs == reset_target_state(executor)
       IN  IF ~sw.ok
           THEN /\ state' = sw.state
                /\ pc' = on_change_error(pc, sw.err)
                /\ obs' = [obs EXCEPT !.changes_ok = FALSE, !.choose = NoChoose,
                                     !.failure = Failure("change", sw.err)]
                /\ UNCHANGED executor
           ELSE IF ~rs.ok
           THEN /\ state' = sw.state
                /\ executor' = rs.executor
                /\ pc' = on_change_error(pc, rs.err)
                /\ obs' = [obs EXCEPT !.changes_ok = FALSE, !.choose = NoChoose,
                                     !.failure = Failure("change", rs.err)]
           ELSE /\ state' = sw.state
                /\ executor' = rs.executor
                /\ pc' = [pc EXCEPT !.at = "prefix", !.k = 0, !.ret = "change"]
                /\ obs' = [obs EXCEPT !.choose = NoChoose,
                                     !.fed = 0, !.stale = FALSE, !.mut = NoMut,
                                     !.cycle = [NoCycle EXCEPT
                                        !.sends = 1,
                                        !.cycles_before = fuzz_cycles(sw.state)]]
    /\ UNCHANGED <<sched, quitting, apivars, choice>>

\* one evaluate_input of send_prefix; outcomes: what the forkserver and the
\* target may do, max_runs: the executions explored
SendPrefixMessageOf(outcomes, max_runs) ==
    /\ pc.at = "prefix"
    /\ pc.k < Len(prefix(state).prefix)
    /\ obs.runs < max_runs
    /\ \E o \in outcomes :
        LET then(res) ==
                /\ state' = res.state
                /\ executor' = res.executor
                /\ pc' = IF res.ok
                         THEN [pc EXCEPT !.k = pc.k + 1]
                         ELSE IF pc.ret = "change"
                         THEN on_change_error(pc, res.err)
                         ELSE on_inner_error(pc, res.err)
                /\ obs' = [obs EXCEPT
                             !.runs = @ + 1,
                             !.changes_ok = @ /\ (res.ok \/ pc.ret # "change"),
                             !.fed = FedAfter(executor, @, res, pc.k, pc.k + 1),
                             !.stale = @ \/ (res.ok /\ res.exit_kind = "Timeout"),
                             !.cycle.prefix_timeouts =
                                 @ \/ (res.ok /\ res.exit_kind = "Timeout"),
                             !.failure = IF res.ok THEN @
                                         ELSE Failure(pc.ret, res.err)]
        IN  then(evaluate_input(state, executor, o))
    /\ UNCHANGED <<sched, quitting, apivars, choice>>

SendPrefixMessage == SendPrefixMessageOf(Outcomes, MaxRuns)

SendPrefixDone ==
    /\ pc.at = "prefix"
    /\ pc.k >= Len(prefix(state).prefix)
    /\ pc' = IF pc.ret = "change"
             THEN [pc EXCEPT !.at = "fuzz", !.i = 0]
             ELSE next_iteration(pc)
    /\ UNCHANGED <<state, sched, executor, quitting, obs, apivars, choice>>

FuzzOneOf(outcomes, max_runs) ==
    /\ pc.at = "fuzz"
    /\ obs.runs < max_runs
    /\ \E o \in outcomes :
        LET need == Len(prefix(state).prefix)
            then(res) ==
                /\ state' = res.state
                /\ executor' = res.executor
                /\ pc' = IF res.ok
                         THEN [pc EXCEPT !.at = "after_fuzz"]
                         ELSE on_inner_error(pc, res.err)
                /\ obs' = [obs EXCEPT
                             !.runs = @ + 1,
                             !.fed = FedAfter(executor, @, res, need, need),
                             !.stale = @ \/ (res.ok /\ res.exit_kind = "Timeout"),
                             !.mut = [called |-> res.ok,
                                      kind |-> res.exit_kind,
                                      fresh |-> ~Resumed(executor),
                                      fed |-> FedBefore(executor, obs.fed),
                                      need |-> need,
                                      stale |-> obs.stale],
                             !.cycle = [@ EXCEPT
                                          !.kinds = IF res.ok
                                                    THEN Append(@, res.exit_kind)
                                                    ELSE @,
                                          !.resends = 0],
                             !.failure = IF res.ok THEN @
                                         ELSE Failure("fuzz", res.err)]
        IN  then(evaluate_input(state, executor, o))
    /\ UNCHANGED <<sched, quitting, apivars, choice>>

FuzzOne == FuzzOneOf(Outcomes, MaxRuns)

AfterFuzzOne ==
    /\ pc.at = "after_fuzz"
    /\ IF quitting
       THEN /\ pc' = [pc EXCEPT !.at = "final"]
            /\ UNCHANGED <<executor, obs>>
       ELSE LET reset == state_reset_occurred(executor)
            IN  /\ executor' = reset.executor
                /\ pc' = IF reset.result
                         THEN [pc EXCEPT !.at = "prefix", !.k = 0, !.ret = "resend"]
                         ELSE next_iteration(pc)
                /\ obs' = IF reset.result
                          THEN [obs EXCEPT !.stale = FALSE,
                                           !.cycle.sends = @ + 1,
                                           !.cycle.resends = @ + 1]
                          ELSE obs
    /\ UNCHANGED <<state, sched, quitting, apivars, choice>>

\* the outer loop goes on whatever the flag says
after_cycle_unpolled(p, flag) == [p EXCEPT !.at = "choose"]

\* if quitting.load(..) { break 'outer; } at the end of the outer loop
after_cycle(p, flag) == [p EXCEPT !.at = IF flag THEN "final" ELSE "choose"]

EndCycle ==
    /\ pc.at = "end_cycle"
    /\ LET st1 == fuzz_cycles_set(state, fuzz_cycles(state) + 1)
           coverage == calculate_total_coverage(st1)
       IN  /\ state' = st1
           /\ pc' = [after_cycle(pc, quitting) EXCEPT
                       !.best_edge_coverage = Max(@, coverage.covered)]
    /\ UNCHANGED <<sched, executor, quitting, obs, apivars, choice>>

Final ==
    /\ pc.at = "final"
    /\ LET r == for_each(state, Closure("fire", -1))
       IN  /\ state' = r.state
           /\ pc' = [Returned(pc, IF r.ok THEN "Ok" ELSE "Err") EXCEPT
                       !.final_stats = r.calls]
    /\ UNCHANGED <<sched, executor, quitting, obs, apivars, choice>>

\* a terminating signal arrives
Signal ==
    /\ Running
    /\ ~quitting
    /\ quitting' = TRUE
    /\ UNCHANGED <<state, sched, executor, pc, obs, apivars, choice>>

NextLoop ==
    \/ ChooseNextState
    \/ ChangeTargetState
    \/ SendPrefixMessage
    \/ SendPrefixDone
    \/ FuzzOne
    \/ AfterFuzzOne
    \/ EndCycle
    \/ Final
    \/ Signal

SpecLoop == InitLoop /\ [][NextLoop]_vars

(***************************************************************************)
(* The same loop over CycleStates target states with loops up to           *)
(* CycleLoops, no signal and a target that answers every input, crashes or *)
(* runs into the timeout: no step of an execution fails.                   *)
(***************************************************************************)
SteadyOutcomes ==
    { Outcome(at, "none", 0) : at \in {"stopped", "signaled", "timeout"} }

InitCycles == InitLoopOf({CycleStates}, 1..CycleLoops)

SteadySendPrefixMessage == SendPrefixMessageOf(SteadyOutcomes, CycleRuns)

SteadyFuzzOne == FuzzOneOf(SteadyOutcomes, CycleRuns)

NextCycles ==
    \/ ChooseNextState
    \/ ChangeTargetState
    \/ SteadySendPrefixMessage
    \/ SendPrefixDone
    \/ SteadyFuzzOne
    \/ AfterFuzzOne
    \/ EndCycle

SpecCycles == InitCycles /\ [][NextCycles]_vars

(***************************************************************************)
(* The loop with a target whose every execution returns a classification,  *)
(* the status words that can follow the kill of a timed-out child          *)
(* included.                                                               *)
(***************************************************************************)
KillStates == 2
KillLoops == 2
KillRuns == 5

InitKill == InitLoopOf({KillStates}, 1..KillLoops)

ClassifiedSendPrefixMessage == SendPrefixMessageOf(Classified, KillRuns)

ClassifiedFuzzOne == FuzzOneOf(Classified, KillRuns)

NextKill ==
    \/ ChooseNextState
    \/ ChangeTargetState
    \/ ClassifiedSendPrefixMessage
    \/ SendPrefixDone
    \/ ClassifiedFuzzOne
    \/ AfterFuzzOne
    \/ EndCycle

SpecKill == InitKill /\ [][NextKill]_vars

(***************************************************************************)
(* weighted_choice applied to every list of at most MaxPairs pairs.        *)
(***************************************************************************)
WeightPairs ==
    UNION { [1..n -> (0..(MaxStates - 1)) \X (0..MaxWeight)] : n \in 1..MaxPairs }

InitChoice ==
    /\ choice \in { [NoChoice EXCEPT !.weight_pairs = w] : w \in WeightPairs }
    /\ state = NoState
    /\ ctor = CtorPending
    /\ ApiIdle
    /\ LoopIdle

Draw ==
    /\ ~choice.drawn
    /\ \E r \in 0..(Len(expand(choice.weight_pairs)) - 1) :
        choice' = [choice EXCEPT !.drawn = TRUE, !.r = r,
                                 !.result = weighted_choice(choice.weight_pairs, r)]
    /\ UNCHANGED <<state, apivars, loopvars>>

NextChoice == Draw

SpecChoice == InitChoice /\ [][NextChoice]_vars

(***************************************************************************)
(* The executor driven through its three operations, run_target,           *)
(* reset_target_state and state_reset_occurred, in any order, starting     *)
(* after t executions that timed out (t up to MaxTimeouts).                *)
(***************************************************************************)
MaxTimeouts == 40
ExecRuns == 2

timeouts_of(st) ==
    IF map_has(metadata_map(st), KEY_TIMEOUTS)
    THEN metadata_map(st)[KEY_TIMEOUTS]
    ELSE 0

RECURSIVE after_timeouts(_, _, _)
after_timeouts(ex, st, t) ==
    IF t = 0
    THEN [executor |-> ex, state |-> st]
    ELSE LET then(res) ==
                IF res.ok
                THEN after_timeouts(res.executor, res.state, t - 1)
                ELSE [executor |-> res.executor, state |-> res.state]
         IN  then(run_target(ex, st, Outcome("timeout", "none", 0)))

InitExec ==
    /\ \E mode \in StateAccessMode, t \in 0..MaxTimeouts :
        LET r == new_with_access_mode(MkCorpora(1), MkPrefixes(1), mode,
                                      Closure("init_state", -1))
            then(a) ==
                /\ state = a.state
                /\ executor = a.executor
        IN  /\ then(after_timeouts(StatefulPersistentExecutor_new, r.state, t))
            /\ ctor = [status |-> "ok", access_mode |-> mode,
                       corpora |-> 1, prefixes |-> 1]
            /\ obs = [ObsIdle EXCEPT !.call.timeout_since_true = (t > 0),
                                     !.call.unreported = (t > 0)]
    /\ sched = NoScheduler
    /\ pc = PcIdle
    /\ quitting = FALSE
    /\ ApiIdle
    /\ choice = NoChoice

\* the call record that follows obs.call
NextCall(op) ==
    [NoCall EXCEPT !.op = op, !.pre = executor,
                   !.pre_timeouts = timeouts_of(state),
                   !.timeouts = timeouts_of(state),
                   !.killed = obs.call.killed,
                   !.prev_op = obs.call.op, !.prev_ok = obs.call.ok,
                   !.prev_result = obs.call.result,
                   !.had_timeout = obs.call.timeout_since_true,
                   !.timeout_since_true = obs.call.timeout_since_true,
                   !.unreported = obs.call.unreported]

RunTargetWith(outcomes, max_runs) ==
    /\ obs.runs < max_runs
    /\ \E o \in outcomes :
        LET then(res) ==
                /\ state' = res.state
                /\ executor' = res.executor
                /\ obs' = [obs EXCEPT
                             !.runs = @ + 1,
                             !.call = [NextCall("run_target") EXCEPT
                                !.ok = res.ok, !.exit_kind = res.exit_kind,
                                !.err = res.err, !.fired = res.fired,
                                !.steps = res.steps, !.at = o.at,
                                !.timeouts = timeouts_of(res.state),
                                !.timeout_since_true =
                                    @ \/ (res.ok /\ res.exit_kind = "Timeout"),
                                !.unreported =
                                    IF o.at = "ctl" THEN @
                                    ELSE o.at \in NoStatusInTime]]
        IN  then(run_target(executor, state, o))
    /\ UNCHANGED <<sched, pc, quitting, apivars, choice>>

RunTargetOf(max_runs) == RunTargetWith(Outcomes, max_runs)

RunTarget == RunTargetOf(ExecRuns)

ResetTargetState ==
    /\ LET then(rs) ==
                /\ executor' = rs.executor
                /\ obs' = [obs EXCEPT
                             !.call = [NextCall("reset_target_state") EXCEPT
                                !.ok = rs.ok, !.err = rs.err, !.signal = rs.signal,
                                !.killed = IF rs.ok THEN rs.signal ELSE @,
                                !.unreported = @ \/ is_some(rs.signal)]]
       IN  then(reset_target_state(executor))
    /\ UNCHANGED <<state, sched, pc, quitting, apivars, choice>>

StateResetOccurred ==
    /\ LET then(r) ==
                /\ executor' = r.executor
                /\ obs' = [obs EXCEPT
                             !.call = [NextCall("state_reset_occurred") EXCEPT
                                !.result = r.result,
                                !.timeout_since_true = IF r.result THEN FALSE ELSE @]]
       IN  then(state_reset_occurred(executor))
    /\ UNCHANGED <<state, sched, pc, quitting, apivars, choice>>

NextExec ==
    \/ RunTarget
    \/ ResetTargetState
    \/ StateResetOccurred

SpecExec == InitExec /\ [][NextExec]_vars

(***************************************************************************)
(* The executor with a trace collector attached, in socket-client mode:    *)
(* executions and target resets in any order.                              *)
(***************************************************************************)
TraceRuns == 4

InitTrace ==
    /\ \E mode \in StateAccessMode :
        LET r == new_with_access_mode(MkCorpora(1), MkPrefixes(1), mode,
                                      Closure("init_state", -1))
        IN  /\ state = r.state
            /\ ctor = [status |-> "ok", access_mode |-> mode,
                       corpora |-> 1, prefixes |-> 1]
    /\ executor = StatefulPersistentExecutor_with(Some(RequestResponseCollector_new))
    /\ obs = [ObsIdle EXCEPT !.call.pre = executor]
    /\ sched = NoScheduler
    /\ pc = PcIdle
    /\ quitting = FALSE
    /\ ApiIdle
    /\ choice = NoChoice

TraceRunTarget == RunTargetOf(TraceRuns)

NextTrace ==
    \/ TraceRunTarget
    \/ ResetTargetState

SpecTrace == InitTrace /\ [][NextTrace]_vars

(***************************************************************************)
(* The same executor with every outcome of an execution, the status words  *)
(* that can follow the kill of a timed-out child included.                 *)
(***************************************************************************)
StatusRunTarget == RunTargetWith(Outcomes \cup Classified, TraceRuns)

NextStatus ==
    \/ StatusRunTarget
    \/ ResetTargetState

SpecStatus == InitTrace /\ [][NextStatus]_vars

(***************************************************************************)
(* The executor in socket-server mode.  SocketConnector: listener, stream  *)
(* and handle are None or Some; the observer adds whether serv_start was   *)
(* called and serv_finish has not been called since (pending), and whether *)
(* serv_start was ever called in that situation (started_twice).           *)
(***************************************************************************)
SocketConnector_new_server ==
    [listener |-> Some("TcpListener"), stream |-> None, handle |-> None,
     pending |-> FALSE, started_twice |-> FALSE]

\* self.listener.take().unwrap(): a panic when the listener is with the
\* accept thread
serv_start_listening(con) ==
    IF is_none(con.listener)
    THEN [panicked |-> TRUE, con |-> con]
    ELSE [panicked |-> FALSE,
          con |-> [con EXCEPT !.listener = None, !.handle = Some("JoinHandle")]]

\* stream_err: what stream.take_error() finds on a stream that is kept
serv_start(con, force, stream_err) ==
    LET called == [con EXCEPT !.pending = TRUE,
                              !.started_twice = @ \/ con.pending]
    IN  IF force
        THEN serv_start_listening([called EXCEPT !.stream = None])
        ELSE IF is_some(con.stream)
        THEN IF stream_err
             THEN serv_start_listening([called EXCEPT !.stream = None])
             ELSE [panicked |-> FALSE, con |-> called]
        ELSE serv_start_listening(called)

\* the accept thread is joined and gives the listener back with the stream
serv_finish(con) ==
    IF is_some(con.handle)
    THEN [ok |-> TRUE,
          con |-> [con EXCEPT !.handle = None,
                              !.listener = Some("TcpListener"),
                              !.stream = Some("TcpStream"),
                              !.pending = FALSE]]
    ELSE IF is_some(con.stream)
    THEN [ok |-> TRUE, con |-> [con EXCEPT !.pending = FALSE]]
    ELSE [ok |-> FALSE, con |-> [con EXCEPT !.pending = FALSE]]

\* run_target with InputMode::SocketServer: serv_start before the control
\* word is written, serv_finish and write_all after the PID was read
SocketServer_run_target(ex, st, o, stream_err) ==
    LET started == serv_start(ex.socket_con, is_none(ex.child_pid), stream_err)
        then(res) ==
            IF o.at \in {"ctl", "pid"}
            THEN [panicked |-> FALSE,
                  res |-> [res EXCEPT !.executor.socket_con = started.con]]
            ELSE LET finished == serv_finish(started.con)
                 IN  [panicked |-> FALSE,
                      res |-> IF finished.ok
                              THEN [res EXCEPT !.executor.socket_con = finished.con]
                              ELSE ExecErr([ex EXCEPT !.socket_con = finished.con],
                                           res.state, "IllegalState")]
    IN  IF started.panicked
        THEN [panicked |-> TRUE,
              res |-> ExecErr([ex EXCEPT !.socket_con = started.con],
                              executions_mut(st, executions(st) + 1), "panic")]
        ELSE then(run_target(ex, st, o))

ServRuns == 3

InitServ ==
    /\ \E mode \in StateAccessMode :
        LET r == new_with_access_mode(MkCorpora(1), MkPrefixes(1), mode,
                                      Closure("init_state", -1))
        IN  /\ state = r.state
            /\ ctor = [status |-> "ok", access_mode |-> mode,
                       corpora |-> 1, prefixes |-> 1]
    /\ executor = StatefulPersistentExecutor_new
                    @@ [socket_con |-> SocketConnector_new_server]
    /\ obs = [ObsIdle EXCEPT !.call.pre = executor]
    /\ sched = NoScheduler
    /\ pc = PcIdle
    /\ quitting = FALSE
    /\ ApiIdle
    /\ choice = NoChoice

\* the process is gone after a panic
ServRunTarget ==
    /\ pc.at = "idle"
    /\ obs.runs < ServRuns
    /\ \E o \in Outcomes, stream_err \in BOOLEAN :
        LET then(r) ==
                /\ state' = r.res.state
                /\ executor' = r.res.executor
                /\ pc' = IF r.panicked THEN [pc EXCEPT !.at = "panicked"] ELSE pc
                /\ obs' = [obs EXCEPT
                             !.runs = @ + 1,
                             !.call = [NextCall("run_target") EXCEPT
                                !.ok = r.res.ok, !.exit_kind = r.res.exit_kind,
                                !.err = r.res.err, !.at = o.at]]
        IN  then(SocketServer_run_target(executor, state, o, stream_err))
    /\ UNCHANGED <<sched, quitting, apivars, choice>>

ServResetTargetState ==
    /\ pc.at = "idle"
    /\ LET then(rs) ==
                /\ executor' = rs.executor
                /\ obs' = [obs EXCEPT
                             !.call = [NextCall("reset_target_state") EXCEPT
                                !.ok = rs.ok, !.err = rs.err]]
       IN  then(reset_target_state(executor))
    /\ UNCHANGED <<state, sched, pc, quitting, apivars, choice>>

NextServ ==
    \/ ServRunTarget
    \/ ServResetTargetState

SpecServ == InitServ /\ [][NextServ]_vars

(***************************************************************************)
(* The handshake of ForkserverExecutorBuilder::build_helper.  A 4-byte     *)
(* word is the set of the positions of its bits that are 1, so that        *)
(* `x & F == F` is F \subseteq x and `x | F` is x \cup F.                  *)
(***************************************************************************)
FS_OPT_ENABLED == {31, 0}
FS_OPT_MAPSIZE == {30}
FS_OPT_SHDMEM_FUZZ == {24}
FS_OPT_AUTODICT == {28}

RECURSIVE pow2(_)
pow2(n) == IF n = 0 THEN 1 ELSE 2 * pow2(n - 1)

RECURSIVE bits_value(_)
bits_value(x) ==
    IF x = {} THEN 0
    ELSE LET b == CHOOSE b \in x : TRUE
         IN  pow2(b) + bits_value(x \ {b})

\* ((x & 0x00fffffe) >> 1) + 1
fs_opt_get_mapsize(x) == bits_value({b - 1 : b \in x \cap (1..23)}) + 1

\* the builder before the handshake: the shared-memory input map, the token
\* store and the configured map size, each None or Some
ForkserverExecutorBuilder_new(map, autotokens, map_size) ==
    [map |-> map, autotokens |-> autotokens, map_size |-> map_size,
     real_map_size |-> 0, uses_shmem_testcase |-> FALSE]

\* in: what the forkserver does: rlen and hello of the first read_st (rlen
\* -1: the read fails), send_len of write_ctl (-1: the write fails),
\* read_len and dict_size of the second read_st, body_len of read_st_size.
\* written: the words handed to write_ctl.
build_helper(b, in) ==
    LET Ended(ok, err, at, bb, written) ==
            [ok |-> ok, err |-> err, panicked |-> FALSE, at |-> at,
             builder |-> bb, written |-> written]
        status == in.hello
        enabled == FS_OPT_ENABLED \subseteq status
        sized == enabled /\ FS_OPT_MAPSIZE \subseteq status
        real == fs_opt_get_mapsize(status)
        map_size == IF real % 64 # 0 THEN ((real + 63) \div 64) * 64 ELSE real
        b1 == IF sized
              THEN [b EXCEPT !.real_map_size = real, !.map_size = Some(map_size)]
              ELSE b
        use_shmem == FS_OPT_SHDMEM_FUZZ \subseteq status /\ is_some(b.map)
        use_autodict == FS_OPT_AUTODICT \subseteq status /\ is_some(b.autotokens)
        send_status == FS_OPT_ENABLED
                         \cup (IF use_shmem THEN FS_OPT_SHDMEM_FUZZ ELSE {})
                         \cup (IF use_autodict THEN FS_OPT_AUTODICT ELSE {})
        b2 == [b1 EXCEPT !.uses_shmem_testcase = use_shmem]
    IN  IF in.rlen < 0 THEN Ended(FALSE, "File", "hello", b, <<>>)
        ELSE IF in.rlen # 4 THEN Ended(FALSE, "Unknown", "hello", b, <<>>)
        ELSE IF sized /\ ~(is_none(b.map_size) \/ map_size <= unwrap(b.map_size))
        THEN [ok |-> FALSE, err |-> "none", panicked |-> TRUE, at |-> "assert",
              builder |-> [b EXCEPT !.real_map_size = real], written |-> <<>>]
        ELSE IF ~(enabled /\ ( \/ FS_OPT_SHDMEM_FUZZ \subseteq status
                               \/ FS_OPT_AUTODICT \subseteq status ))
        THEN Ended(TRUE, "none", "done", b1, <<>>)
        ELSE IF send_status = FS_OPT_ENABLED
        THEN Ended(TRUE, "none", "done", b2, <<>>)
        ELSE IF in.send_len < 0
        THEN Ended(FALSE, "File", "write", b2, <<send_status>>)
        ELSE IF in.send_len # 4
        THEN Ended(FALSE, "Unknown", "write", b2, <<send_status>>)
        ELSE IF ~(FS_OPT_AUTODICT \subseteq send_status)
        THEN Ended(TRUE, "none", "done", b2, <<send_status>>)
        ELSE IF in.read_len # 4
        THEN Ended(FALSE, "Unknown", "dict_size_read", b2, <<send_status>>)
        ELSE IF ~(in.dict_size >= 2 /\ in.dict_size <= 16777215)
        THEN Ended(FALSE, "IllegalState", "dict_size", b2, <<send_status>>)
        ELSE IF in.body_len # in.dict_size
        THEN Ended(FALSE, "Unknown", "dict_body", b2, <<send_status>>)
        ELSE Ended(TRUE, "none", "done", b2, <<send_status>>)

\* the map size the builder is configured with
ConfiguredMapSize == 128

\* the hello words: every combination of the flag bits, announcing a map
\* of 1, 65 or 65537 bytes
Hellos ==
    { flags \cup size : flags \in SUBSET {0, 24, 28, 30, 31},
                        size \in {{}, {7}, {17}} }

InitHandshake ==
    /\ \E map \in {None, Some("shmem")}, autotokens \in {None, Some("Tokens")},
          map_size \in {None, Some(ConfiguredMapSize)} :
        executor = ForkserverExecutorBuilder_new(map, autotokens, map_size)
    /\ state = NoState
    /\ ctor = [status |-> "none", access_mode |-> "none", corpora |-> 0,
               prefixes |-> 0]
    /\ obs = ObsIdle
    /\ sched = NoScheduler
    /\ pc = PcIdle
    /\ quitting = FALSE
    /\ ApiIdle
    /\ choice = NoChoice

BuildHelper ==
    /\ last.op = "none"
    /\ \E hello \in Hellos, rlen \in {-1, 0, 4}, send_len \in {-1, 0, 4},
          read_len \in {0, 4}, dict_size \in {1, 2, 16777215, 16777216},
          body_short \in BOOLEAN :
        LET in == [hello |-> hello, rlen |-> rlen, send_len |-> send_len,
                   read_len |-> read_len, dict_size |-> dict_size,
                   body_len |-> IF body_short THEN dict_size - 1 ELSE dict_size]
            then(r) ==
                /\ executor' = r.builder
                /\ last' = [op |-> "build_helper", arg |-> in, ok |-> r.ok,
                            err |-> r.err, panicked |-> r.panicked, at |-> r.at,
                            pre |-> executor, written |-> r.written]
        IN  then(build_helper(executor, in))
    /\ UNCHANGED <<state, ctor, obs, sched, pc, quitting, detour, writes, ops,
                   choice>>

NextHandshake == BuildHelper

SpecHandshake == InitHandshake /\ [][NextHandshake]_vars

(***************************************************************************)
(* The fuzz loop under a terminating signal, with its steps taken under    *)
(* weak fairness: every call the loop makes returns.  The signal arrives   *)
(* while the executions and selections the model counts still allow one    *)
(* more cycle.                                                             *)
(***************************************************************************)
QuitStates == 2
QuitLoops == 2

InitQuit == InitLoopOf({QuitStates}, 1..QuitLoops)

SignalInTime ==
    /\ obs.runs + MaxPrefixLen + 1 <= MaxRuns
    /\ obs.npicks + 1 <= MaxPicks
    /\ Signal

LoopStep ==
    \/ ChooseNextState
    \/ ChangeTargetState
    \/ SendPrefixMessage
    \/ SendPrefixDone
    \/ FuzzOne
    \/ AfterFuzzOne
    \/ EndCycle
    \/ Final

NextQuit ==
    \/ LoopStep
    \/ SignalInTime

\* a step of the loop can be taken: the call it is about to make is within
\* the executions and selections counted
CanStep ==
    CASE pc.at = "choose" -> obs.npicks < MaxPicks
      [] pc.at = "prefix" -> pc.k >= Len(prefix(state).prefix) \/ obs.runs < MaxRuns
      [] pc.at = "fuzz" -> obs.runs < MaxRuns
      [] pc.at \in {"change", "after_fuzz", "end_cycle", "final"} -> TRUE
      [] OTHER -> FALSE

\* what every step of the loop does and the arrival of a signal does not
Advanced == pc' # pc \/ obs'.runs # obs.runs

\* weak fairness of the steps of the loop, WF_vars(LoopStep), with
\* ENABLED <<LoopStep>>_vars written out as CanStep: the thread that runs
\* the loop is never suspended for ever and every call it makes returns
LoopFairness == ([]<>(~CanStep)) \/ ([]<><<Advanced>>_vars)

SpecQuit ==
    /\ InitQuit
    /\ [][NextQuit]_vars
    /\ LoopFairness
    /\ WF_vars(AfterFuzzOne)
    /\ WF_vars(EndCycle)

(***************************************************************************)
(* main of libaflstar-ftp-sc-cy: a single-corpus container, the Cycler, an *)
(* executor with a trace collector, and the loop around                    *)
(* fuzz_loop_with_signal_handling that recreates the forkserver.           *)
(***************************************************************************)
MaxRecreations == 1

\* recreate on any error
main_match_recreates_on_error(result) ==
    CASE result = "Ok" -> "break"
      [] OTHER -> "recreate"

\* the match on the result of fuzz_loop_with_signal_handling
main_match(result) ==
    CASE result = "ShuttingDown" -> "recreate"
      [] result = "Ok" -> "break"
      [] OTHER -> "quit"

\* ForkserverExecutor::shutdown: the collector is taken out, the forkserver
\* is dropped
shutdown(ex) == ex.request_response_collector

create_forkserver_executor(collector) == StatefulPersistentExecutor_with(collector)

InitMain ==
    /\ \E n \in 1..MaxStates, loops \in 1..MaxLoops :
        LET r == new_with_access_mode(MkCorpora(1), MkPrefixes(n), "SingleCorp",
                                      Closure("init_state", -1))
        IN  /\ state = r.state
            /\ ctor = [status |-> "ok", access_mode |-> "SingleCorp",
                       corpora |-> 1, prefixes |-> n]
            /\ pc = [PcIdle EXCEPT !.at = "choose", !.loops = loops]
            /\ obs = [ObsIdle EXCEPT !.seen =
                        [k \in 1..n |-> [n |-> 0, prev |-> <<>>, curr |-> <<>>]]]
    /\ sched = Scheduler(FALSE, "Cycler")
    /\ executor = create_forkserver_executor(Some(RequestResponseCollector_new))
    /\ quitting = FALSE
    /\ ApiIdle
    /\ choice = NoChoice

\* Err(Error::ShuttingDown): the executor is shut down and created again,
\* and the loop calls fuzz_loop_with_signal_handling again
RecreateForkserver ==
    /\ pc.at = "returned"
    /\ main_match(pc.result) = "recreate"
    /\ pc.recreations < MaxRecreations
    /\ executor' = create_forkserver_executor(shutdown(executor))
    /\ pc' = [PcIdle EXCEPT
                !.at = "choose", !.loops = pc.loops,
                !.recreations = pc.recreations + 1,
                !.printed = Append(pc.printed, "Recreating forkserver executor")]
    /\ quitting' = FALSE
    /\ UNCHANGED <<state, sched, obs, apivars, choice>>

\* Ok(_) and Err(e) leave the loop; store_fuzzer_info succeeds or fails and
\* main returns its error or Ok(())
Exit ==
    /\ pc.at = "returned"
    /\ main_match(pc.result) \in {"break", "quit"}
    /\ \E stored \in BOOLEAN :
        LET lines == IF main_match(pc.result) = "quit"
                     THEN Append(pc.printed, "Quitting due to error")
                     ELSE pc.printed
        IN  pc' = [pc EXCEPT
                     !.at = "exited",
                     !.printed = IF stored
                                 THEN Append(lines, "Quitting! Recreated forkserver")
                                 ELSE Append(lines, "Error"),
                     !.exit_status = Some(IF stored THEN 0 ELSE 1)]
    /\ UNCHANGED <<state, sched, executor, quitting, obs, apivars, choice>>

NextMain ==
    \/ ChooseNextState
    \/ ChangeTargetState
    \/ SendPrefixMessage
    \/ SendPrefixDone
    \/ FuzzOne
    \/ AfterFuzzOne
    \/ EndCycle
    \/ Final
    \/ Signal
    \/ RecreateForkserver
    \/ Exit

SpecMain == InitMain /\ [][NextMain]_vars

(***************************************************************************)
(* The novelty schedulers applied once to a container whose history maps   *)
(* and stored counts are drawn from bounded sets: every map of MapLen      *)
(* bytes, every stored count up to MapLen for any subset of the states,    *)
(* every active state, used and unused states.                             *)
(***************************************************************************)
HistoryMaps == [1..MapLen -> 0..1]

IndexCounts(n) == UNION { [D -> 0..MapLen] : D \in SUBSET (0..(n - 1)) }

\* state k given the history map h and fuzz_cycles c; k stays active
with_history(st, k, h, c) ==
    LET sw == switch_state(st, k).state
    IN  fuzz_cycles_set(
            named_metadata_map_mut(sw, map_insert(named_metadata_map(sw),
                                                  KEY_HISTORY, h)),
            c)

RECURSIVE with_histories(_, _, _, _)
with_histories(st, k, hs, cs) ==
    IF k >= states_len(st)
    THEN st
    ELSE with_histories(with_history(st, k, hs[k + 1], cs[k + 1]), k + 1, hs, cs)

NoveltySchedulers ==
    { Scheduler(TRUE, "NoveltySearchInner"),
      Scheduler(TRUE, "NoveltySearchAndOutgoingEdges") }

InitNovelty ==
    /\ \E mode \in StateAccessMode, n \in 1..MaxStates, s \in NoveltySchedulers :
       \E idx \in 0..(n - 1), hs \in [1..n -> HistoryMaps],
          cs \in [1..n -> 0..1], ic \in IndexCounts(n) :
        LET nc == IF mode = "SingleCorp" THEN 1 ELSE n
            r == new_with_access_mode(MkCorpora(nc), MkPrefixes(n), mode,
                                      Closure("init_state", -1))
            filled == switch_state(with_histories(r.state, 0, hs, cs), idx).state
            meta == [index_counts |-> ic, novelties |-> [k \in DOMAIN ic |-> 0]]
        IN  /\ state = shared_metadata_map_mut(filled,
                           map_insert(shared_metadata_map(filled), KEY_NOVELTY, meta))
            /\ ctor = [status |-> "ok", access_mode |-> mode,
                       corpora |-> nc, prefixes |-> n]
            /\ sched = s
    /\ pc = PcIdle
    /\ obs = ObsIdle
    /\ executor = StatefulPersistentExecutor_new
    /\ quitting = FALSE
    /\ ApiIdle
    /\ choice = NoChoice

\* state_scheduler.choose_next_state, once
Choose ==
    /\ pc.at = "idle"
    /\ sched.inner # "none"
    /\ ~obs.choose.called
    /\ \E r \in 0..(RandRange - 1) :
        LET then(res) ==
                /\ state' = res.state
                /\ obs' = [obs EXCEPT !.choose = Chosen(state, res)]
                /\ last' = [NoLast EXCEPT !.op = "choose_next_state",
                                          !.ok = res.ok, !.pre = state]
        IN  then(choose_next_state(sched, state, r))
    /\ UNCHANGED <<ctor, detour, writes, ops, sched, executor, pc, quitting, choice>>

NextNovelty == Choose

SpecNovelty == InitNovelty /\ [][NextNovelty]_vars

(***************************************************************************)
(* NoveltySearchInner::get_weights called up to MaxWeighings times in a    *)
(* row on the containers of the novelty specification.                     *)
(***************************************************************************)
MaxWeighings == 2

GetWeights ==
    /\ Len(last.vals) < MaxWeighings
    /\ LET then(weights) ==
                /\ state' = weights.state
                /\ last' = [NoLast EXCEPT !.op = "get_weights",
                                          !.ok = weights.ok,
                                          !.pre = state,
                                          !.vals = Append(last.vals, weights.ok)]
       IN  then(NoveltySearchInner_get_weights(state))
    /\ UNCHANGED <<ctor, detour, writes, ops, loopvars, choice>>

NextWeights == GetWeights

SpecWeights == InitNovelty /\ [][NextWeights]_vars

(***************************************************************************)
(* calculate_total_coverage applied to containers whose history maps have  *)
(* up to CovLen bytes.                                                     *)
(***************************************************************************)
CovLen == 3

CoverageMaps == UNION { [1..len -> 0..1] : len \in 0..CovLen }

InitCoverage ==
    /\ \E mode \in StateAccessMode, n \in 1..MaxStates :
       \E idx \in 0..(n - 1), hs \in [1..n -> CoverageMaps] :
        LET nc == IF mode = "SingleCorp" THEN 1 ELSE n
            r == new_with_access_mode(MkCorpora(nc), MkPrefixes(n), mode,
                                      Closure("init_state", -1))
        IN  /\ state = switch_state(
                           with_histories(r.state, 0, hs, [k \in 1..n |-> 0]),
                           idx).state
            /\ ctor = [status |-> "ok", access_mode |-> mode,
                       corpora |-> nc, prefixes |-> n]
    /\ LoopIdle
    /\ ApiIdle
    /\ choice = NoChoice

TotalCoverage ==
    /\ last.op = "none"
    /\ LET then(coverage) ==
                last' = [NoLast EXCEPT !.op = "calculate_total_coverage",
                                       !.pre = state,
                                       !.vals = <<coverage.covered, coverage.total>>]
       IN  then(calculate_total_coverage(state))
    /\ UNCHANGED <<state, ctor, detour, writes, ops, loopvars, choice>>

NextCoverage == TotalCoverage

SpecCoverage == InitCoverage /\ [][NextCoverage]_vars

(***************************************************************************)
(* What a consumer sees of the container while target state i is active.   *)
(***************************************************************************)
Context(st, i) ==
    LET s == [st EXCEPT !.idx = i]
    IN  [ corpus |-> corpus(s),
          metadata |-> metadata_map(s),
          named_metadata |-> named_metadata_map(s),
          imported |-> imported(s),
          executions |-> executions(s),
          fuzz_cycles |-> fuzz_cycles(s),
          corpus_idx |-> current_corpus_idx(s),
          stage_idx_stack |-> inner(s).stage_idx_stack,
          stage_depth |-> inner(s).stage_depth ]

\* C1: after switch_state(i); switch_state(j); switch_state(i) with nothing
\* in between, i is active, the context visible under i is the one that was
\* visible under i before the detour, and no state's data and no shared
\* data has changed.
C1_SwitchDetourIdentity ==
    detour.phase = 3 =>
        /\ state.idx = detour.i
        /\ Context(state, detour.i) = Context(detour.before, detour.i)
        /\ [state EXCEPT !.idx = 0] = detour.before

C1_Witness ==
    /\ detour.phase = 3
    /\ detour.i # detour.j
    /\ Len(writes) > 0
    /\ is_some(current_corpus_idx(state))

\* C2: switch_state(i) returns Ok and makes i active exactly when i < N;
\* for i >= N it returns Err and leaves the container as it was; the active
\* id of a constructed container is always in [0, N).
C2_SwitchStateRange ==
    /\ Ready => state.idx \in 0..(state.num_states - 1)
    /\ last.op = "switch_state" =>
        /\ last.ok <=> last.arg < state.num_states
        /\ last.ok => state.idx = last.arg
        /\ ~last.ok => state = last.pre

C2_Witness ==
    /\ last.op = "switch_state"
    /\ ~last.ok
    /\ last.arg = state.num_states
    /\ state.idx = state.num_states - 1
    /\ ops > 0

\* The storage the access-mode table of the specification gives each kind
\* of data.
SharedStorage(mode, kind) ==
    CASE kind = "corpus" -> mode = "SingleCorp"
      [] kind \in {"metadata", "named"} -> mode \in {"SingleCorp", "MultiCorpSingleMeta"}

\* Whether the value written by w is read back while j is active.
Visible(st, j, w) ==
    LET s == [st EXCEPT !.idx = j]
    IN  CASE w.kind = "corpus" ->
                \E p \in 1..Len(corpus(s)) : corpus(s)[p] = w.tok
          [] w.kind = "metadata" ->
                /\ map_has(metadata_map(s), KEY_ANY)
                /\ w.tok \in metadata_map(s)[KEY_ANY]
          [] w.kind = "named" ->
                /\ w.tok <= Len(history_of(named_metadata_map(s)))
                /\ history_of(named_metadata_map(s))[w.tok] # 0

\* C4: a write made through the routed accessors while i was active is
\* read back under j exactly when the access mode shares that kind of
\* storage or j = i; the access mode is the one given at construction.
C4_AccessModeRouting ==
    Ready =>
        /\ state.access_mode = ctor.access_mode
        /\ \A k \in 1..Len(writes) : \A j \in 0..(state.num_states - 1) :
              Visible(state, j, writes[k]) <=>
                  (SharedStorage(state.access_mode, writes[k].kind) \/ j = writes[k].at)

C4_Witness ==
    /\ Ready
    /\ state.access_mode = "MultiCorpSingleMeta"
    /\ Len(writes) = 2
    /\ writes[1].kind = "corpus"
    /\ writes[2].kind = "metadata"
    /\ writes[1].at = 1
    /\ state.idx = 0
    /\ ~Visible(state, 0, writes[1])
    /\ Visible(state, 0, writes[2])

\* C5: construction returns Err and produces no container when the number
\* of prefixes is 0 or the number of corpora does not fit the access mode;
\* a container just constructed has N inner states, active id 0 and all
\* counters 0.
C5_ConstructionChecks ==
    /\ ( /\ ctor.status # "pending"
         /\ \/ ctor.prefixes = 0
            \/ ctor.access_mode = "SingleCorp" /\ ctor.corpora # 1
            \/ ctor.access_mode # "SingleCorp" /\ ctor.corpora # ctor.prefixes )
        => (ctor.status = "err" /\ state = NoState)
    /\ ctor.status = "err" => state = NoState
    /\ (last.op = "new" /\ ctor.status = "ok") =>
        /\ ctor.prefixes >= 1
        /\ state.num_states = ctor.prefixes
        /\ Len(state.inner) = ctor.prefixes
        /\ state.idx = 0
        /\ \A k \in 1..Len(state.inner) :
              /\ state.inner[k].imported = 0
              /\ state.inner[k].executions = 0
              /\ state.inner[k].fuzz_cycles = 0

C5_Witness ==
    /\ last.op = "new"
    /\ ctor.status = "ok"
    /\ ctor.access_mode = "SingleCorp"
    /\ ctor.prefixes = 2
    /\ ctor.corpora = 1

\* C6 (as claimed): for_each and map_to_vec call the closure once per target
\* state, in ascending id order with that state active, and leave the id
\* active that was active before the call.
C6_ForEachRestores ==
    last.op \in {"for_each", "map_to_vec"} =>
        /\ last.calls = [k \in 1..state.num_states |-> k - 1]
        /\ state.idx = last.at

\* The ids of the container's target states.
AllIds == 0..(state.num_states - 1)

\* C3: every call of the executor's run_target adds exactly 1 to the
\* executions counter of the state active at the call and leaves the
\* counters of the other states as they are; no step of the fuzz loop ever
\* lowers a state's executions counter.
C3_RunTargetCountsOnce ==
    [][ /\ \A k \in 1..Len(state.inner) :
              state'.inner[k].executions >= state.inner[k].executions
        /\ obs'.runs # obs.runs =>
              \A k \in 1..Len(state.inner) :
                  state'.inner[k].executions =
                      state.inner[k].executions + (IF k = state.idx + 1 THEN 1 ELSE 0)
      ]_vars

C3_Witness ==
    /\ state.num_states = 2
    /\ state.inner[1].executions >= 1
    /\ state.inner[2].executions >= 1
    /\ state.inner[1].executions + state.inner[2].executions = obs.runs
    /\ pc.at = "returned"
    /\ pc.result = "ShuttingDown"

\* C7: a call of UnusedFirst's choose_next_state calls the inner scheduler
\* once, before anything else, then looks at the states in ascending id order;
\* it returns the lowest id whose fuzz_cycles is 0 if there is one (and stops
\* looking there), and what the inner scheduler returned otherwise.
C7_UnusedFirst ==
    (obs.choose.called /\ sched.unused_first) =>
        LET c == obs.choose
            unused == {k \in AllIds : c.cycles[k + 1] = 0}
            lowest == CHOOSE k \in unused : \A j \in unused : k <= j
        IN  /\ Len(c.calls) >= 1
            /\ c.calls[1] = -1
            /\ \A p \in 2..Len(c.calls) : c.calls[p] = p - 2
            /\ IF unused # {}
               THEN /\ c.ok
                    /\ c.idx = lowest
                    /\ Len(c.calls) = lowest + 2
               ELSE /\ Len(c.calls) = state.num_states + 1
                    /\ c.ok = c.inner.ok
                    /\ c.ok => c.idx = c.inner.idx

C7_Witness ==
    /\ obs.choose.called
    /\ sched = Scheduler(TRUE, "OutgoingEdges")
    /\ state.num_states = 2
    /\ \A k \in 1..2 : obs.choose.cycles[k] > 0
    /\ obs.choose.ok
    /\ obs.choose.idx = 1
    /\ obs.choose.inner.idx = 1

\* C8: Cycler returns (active id + 1) mod N whatever the counters and the
\* coverage are, and leaves the container alone; in a fuzz loop driven by
\* Cycler in which every state change has succeeded, each selection is the
\* successor mod N of the one before it and any N selections in a row are
\* N different states.
C8_CyclerRoundRobin ==
    LET N == state.num_states
        c == obs.choose
    IN  /\ (c.called /\ sched.inner = "Cycler") =>
              /\ c.inner.ok
              /\ (IF sched.unused_first THEN c.inner.idx ELSE c.idx)
                    = (c.pre_idx + 1) % N
              /\ ~sched.unused_first => (c.ok /\ c.post_idx = c.pre_idx)
        /\ (sched = Scheduler(FALSE, "Cycler") /\ obs.changes_ok) =>
              /\ \A p \in 1..(Len(obs.picks) - 1) :
                    obs.picks[p + 1] = (obs.picks[p] + 1) % N
              /\ \A p \in 1..(Len(obs.picks) - N + 1) :
                    {obs.picks[q] : q \in p..(p + N - 1)} = AllIds

C8_Witness ==
    /\ sched = Scheduler(FALSE, "Cycler")
    /\ state.num_states = 2
    /\ obs.changes_ok
    /\ obs.picks = <<1, 0, 1>>
    /\ state.inner[1].fuzz_cycles = 1
    /\ state.inner[2].fuzz_cycles = 1

\* The number of positions of the expanded list that hold v, as the pairs
\* say it should be: the sum of weight + 1 over the pairs whose value is v.
RECURSIVE CopiesWanted(_, _)
CopiesWanted(weight_pairs, v) ==
    IF weight_pairs = <<>>
    THEN 0
    ELSE (IF weight_pairs[1][1] = v THEN weight_pairs[1][2] + 1 ELSE 0)
            + CopiesWanted(Tail(weight_pairs), v)

\* C9: for a non-empty list of pairs the draw is over Sigma(w + 1) positions,
\* exactly the sum of weight + 1 of them return a given value, so every pair
\* (a pair of weight 0 too) can be returned, and nothing is returned that
\* is not the value of a pair.
C9_WeightedChoice ==
    LET w == choice.weight_pairs
        n == Len(expand(w))
    IN  w # <<>> =>
            /\ n = sum_weights(w) + Len(w)
            /\ \A v \in 0..(MaxStates - 1) :
                  Cardinality({r \in 0..(n - 1) : weighted_choice(w, r) = v})
                      = CopiesWanted(w, v)
            /\ \A p \in 1..Len(w) :
                  \E r \in 0..(n - 1) : weighted_choice(w, r) = w[p][1]
            /\ choice.drawn =>
                  \E p \in 1..Len(w) : choice.result = w[p][1]

C9_Witness ==
    /\ choice.drawn
    /\ choice.weight_pairs = <<<<1, 2>>, <<0, 0>>>>
    /\ choice.result = 0

\* The bytes that are non-zero in curr and were not in prev.
NewBytes(prev, curr) ==
    Cardinality({p \in 1..Len(curr) :
                    curr[p] # 0 /\ (p > Len(prev) \/ prev[p] = 0)})

\* C10: in every access mode the novelty the scheduler holds for a state s is
\* the number of history-map bytes that are non-zero at the latest evaluation
\* of s and were not at the one before it (all the non-zero bytes when s has
\* been evaluated once); it is never negative, and states never evaluated
\* hold none.
C10_NoveltyWeight ==
    (pc.at # "idle" /\ sched.inner \in {"NoveltySearchInner",
                                        "NoveltySearchAndOutgoingEdges"}) =>
        LET meta == shared_metadata_map(state)[KEY_NOVELTY]
        IN  /\ DOMAIN meta.novelties = {s \in AllIds : obs.seen[s + 1].n >= 1}
            /\ \A s \in DOMAIN meta.novelties :
                  /\ meta.novelties[s] >= 0
                  /\ meta.novelties[s] =
                        NewBytes(obs.seen[s + 1].prev, obs.seen[s + 1].curr)
                  /\ meta.index_counts[s] = count_non_zero(obs.seen[s + 1].curr)

C10_Witness ==
    /\ sched = Scheduler(TRUE, "NoveltySearchInner")
    /\ state.num_states = 2
    /\ state.access_mode = "MultiCorpSingleMeta"
    /\ obs.seen[1].n = 2
    /\ count_non_zero(obs.seen[1].prev) = 1
    /\ shared_metadata_map(state)[KEY_NOVELTY].novelties[0] = 1
    /\ shared_metadata_map(state)[KEY_NOVELTY].novelties[1] = 2

\* the stored count and the current count the novelty search compared in the
\* call that last.pre was handed to
StoredCount(st) ==
    LET ic == shared_metadata_map(st)[KEY_NOVELTY].index_counts
    IN  IF current_state_idx(st) \in DOMAIN ic THEN ic[current_state_idx(st)] ELSE 0

CurrentCount(st) == count_non_zero(history_of(named_metadata_map(st)))

\* C11: the novelty search returns an IllegalState error, and its
\* choose_next_state chooses no state, exactly when the number of non-zero
\* history-map bytes of the current state is smaller than the count stored
\* for that state; with an equal or larger count it returns weights.
C11_NoveltyShrinkIsError ==
    (obs.choose.called /\ last.op = "choose_next_state") =>
        /\ ~obs.choose.inner.ok <=> CurrentCount(last.pre) < StoredCount(last.pre)
        /\ ~obs.choose.inner.ok => obs.choose.inner.err = "IllegalState"

C11_Witness ==
    /\ obs.choose.called
    /\ last.op = "choose_next_state"
    /\ ~obs.choose.inner.ok
    /\ obs.choose.inner.err = "IllegalState"
    /\ CurrentCount(last.pre) = 1
    /\ StoredCount(last.pre) = 2
    /\ state.num_states = 2

\* the chances out of RandRange that a scheduler call in st returns state k
Chances(st, k) ==
    Cardinality({r \in 0..(RandRange - 1) : choose_next_state(sched, st, r).idx = k})

\* C12: with three states of outgoing_edges 1, 3, 5 and UnusedFirst over
\* OutgoingEdges, each selection followed by a completed cycle: the first
\* three selections are 0, 1, 2 (the states not fuzzed yet, lowest first);
\* the fourth is drawn from the list with weight + 1 copies of each state,
\* 2, 4 and 6 chances out of 12.
C12_UnusedThenOutgoingEdges ==
    [][ ( /\ sched = Scheduler(TRUE, "OutgoingEdges")
          /\ state.num_states = 3
          /\ pc.at = "choose"
          /\ pc'.at = "change"
          /\ obs.npicks <= 3 ) =>
        /\ OutgoingEdges_get_weights(state).pairs = <<<<0, 1>>, <<1, 3>>, <<2, 5>>>>
        /\ \A s \in 0..2 :
              state.inner[s + 1].fuzz_cycles = (IF s < obs.npicks THEN 1 ELSE 0)
        /\ IF obs.npicks < 3
           THEN pc'.new_state_idx = obs.npicks
           ELSE /\ RandRange = 12
                /\ \A k \in 0..2 : Chances(state, k) = 2 * (k + 1)
                /\ Chances(state, pc'.new_state_idx) > 0
      ]_vars

C12_Witness ==
    /\ sched = Scheduler(TRUE, "OutgoingEdges")
    /\ state.num_states = 3
    /\ pc.at = "change"
    /\ obs.npicks = 4
    /\ obs.picks = <<0, 1, 2, 1>>
    /\ pc.loops = 2

\* C13: reset_target_state returns an IllegalState error exactly when the
\* last-run-timed-out flag is set while a child PID is recorded, and then
\* sends no signal and changes nothing; otherwise it succeeds: with a child
\* PID recorded it sends SIGKILL to it, sets the flag and clears the PID,
\* with none recorded it sends nothing and leaves flag and PID as they were.
C13_ResetTargetState ==
    obs.call.op = "reset_target_state" =>
        LET pre == obs.call.pre
        IN  /\ ~obs.call.ok <=> (pre.last_run_timed_out /\ is_some(pre.child_pid))
            /\ ~obs.call.ok =>
                  /\ obs.call.err = "IllegalState"
                  /\ obs.call.signal = None
                  /\ executor = pre
            /\ (obs.call.ok /\ is_some(pre.child_pid)) =>
                  /\ obs.call.signal = pre.child_pid
                  /\ executor.last_run_timed_out
                  /\ is_none(executor.child_pid)
            /\ (obs.call.ok /\ is_none(pre.child_pid)) =>
                  /\ obs.call.signal = None
                  /\ executor.last_run_timed_out = pre.last_run_timed_out
                  /\ executor.child_pid = pre.child_pid

C13_Witness ==
    /\ obs.call.op = "reset_target_state"
    /\ ~obs.call.ok
    /\ obs.call.pre.last_run_timed_out
    /\ is_some(obs.call.pre.child_pid)
    /\ obs.call.prev_op = "run_target"

\* C14: the execution that follows a successful reset_target_state returns
\* a classification only after the forkserver has forked a new child, whose
\* PID differs from the one the reset killed: the stopped child is not
\* resumed.
C14_FreshChildAfterReset ==
    ( /\ obs.call.op = "run_target"
      /\ obs.call.pre.child_was_reset
      /\ obs.call.ok ) =>
        /\ executor.forks = obs.call.pre.forks + 1
        /\ Some(executor.forks) # obs.call.killed
        /\ is_some(executor.child_pid) => executor.child_pid = Some(executor.forks)

C14_Witness ==
    /\ obs.call.op = "run_target"
    /\ obs.call.pre.child_was_reset
    /\ obs.call.pre.child_stopped
    /\ obs.call.ok
    /\ is_some(obs.call.killed)
    /\ executor.status = "stopped"
    /\ executor.child_pid = Some(unwrap(obs.call.killed) + 1)

\* C15: state_reset_occurred returns the flag and leaves it false: two calls
\* in a row never both return true, and a call returns true only if an
\* execution was classified Timeout since the last call that returned true.
C15_ReadAndClear ==
    obs.call.op = "state_reset_occurred" =>
        /\ obs.call.result = obs.call.pre.state_reset_occurred
        /\ ~executor.state_reset_occurred
        /\ obs.call.prev_op = "state_reset_occurred" =>
              ~(obs.call.result /\ obs.call.prev_result)
        /\ obs.call.result => obs.call.had_timeout

C15_Witness ==
    /\ obs.call.op = "state_reset_occurred"
    /\ ~obs.call.result
    /\ obs.call.prev_op = "state_reset_occurred"
    /\ obs.call.prev_result
    /\ obs.runs > 0

\* C16 as stated: the first state_reset_occurred after a successful
\* reset_target_state, with no execution in between, returns true.
C16_ResetSetsFlag ==
    ( /\ obs.call.op = "state_reset_occurred"
      /\ obs.call.prev_op = "reset_target_state"
      /\ obs.call.prev_ok ) => obs.call.result

\* C16: a successful reset_target_state clears the state_reset_occurred
\* flag: the first state_reset_occurred after it, with no execution in
\* between, returns false, also when an execution timed out before it.
C16_ResetClearsFlag ==
    /\ (obs.call.op = "reset_target_state" /\ obs.call.ok) =>
            ~executor.state_reset_occurred
    /\ ( /\ obs.call.op = "state_reset_occurred"
         /\ obs.call.prev_op = "reset_target_state"
         /\ obs.call.prev_ok ) => ~obs.call.result

C16_Witness ==
    /\ obs.call.op = "state_reset_occurred"
    /\ obs.call.prev_op = "reset_target_state"
    /\ obs.call.prev_ok
    /\ obs.call.had_timeout
    /\ ~obs.call.result

\* C17: an execution the wrapper returns as Timeout sets the
\* state_reset_occurred flag and adds exactly 1 to the timeouts counter of
\* the state metadata, and the timeouts event is fired exactly when the new
\* value is below 20 or a multiple of 20; any other execution leaves flag
\* and counter alone and fires nothing.
C17_TimeoutBookkeeping ==
    obs.call.op = "run_target" =>
        IF obs.call.ok /\ obs.call.exit_kind = "Timeout"
        THEN /\ executor.state_reset_occurred
             /\ obs.call.timeouts = obs.call.pre_timeouts + 1
             /\ obs.call.fired \in {<<>>, <<obs.call.timeouts>>}
             /\ obs.call.fired # <<>> <=>
                    obs.call.timeouts \in (1..19) \cup {20, 40, 60}
        ELSE /\ executor.state_reset_occurred = obs.call.pre.state_reset_occurred
             /\ obs.call.timeouts = obs.call.pre_timeouts
             /\ obs.call.fired = <<>>

C17_Witness ==
    /\ obs.call.op = "run_target"
    /\ obs.call.exit_kind = "Timeout"
    /\ obs.call.timeouts = 40
    /\ obs.call.fired = <<40>>
    /\ obs.call.prev_op = "run_target"
    /\ obs.call.prev_ok

\* C18: no mutated input is delivered to a target process that has not
\* received the whole prefix of the active state: the child that receives
\* the input of a fuzz_one has received every message of the prefix, in
\* order, since it was forked.
C18_PrefixAfterEveryDeath ==
    obs.mut.called => obs.mut.fed = obs.mut.need

\* the child crashed in a fuzz_one and the fuzz_one that follows in the same
\* cycle sends its input to a newly forked child
C18_CrashThenUnprimed ==
    ~( /\ obs.mut.called
       /\ obs.mut.fresh
       /\ obs.mut.need > 0
       /\ ~obs.mut.stale
       /\ Len(obs.cycle.kinds) = 2
       /\ obs.cycle.kinds[1] = "Crash"
       /\ obs.cycle.sends = 1 )

\* C19: whenever a fuzz_one starts, the whole prefix of the active state has
\* been replayed and no execution was classified Timeout since that replay
\* began, also when the Timeout happens while the prefix is replayed.
C19_PrefixBeforeFuzzOne ==
    pc.at = "fuzz" =>
        /\ pc.k = Len(prefix(state).prefix)
        /\ ~obs.stale

\* a fuzz_one has run after a replay of the prefix in which a message ran
\* into the timeout
C19_TimeoutInPrefix ==
    ~( /\ obs.mut.called
       /\ obs.mut.stale
       /\ obs.cycle.prefix_timeouts
       /\ obs.cycle.sends = 1
       /\ Len(obs.cycle.kinds) = 1 )

\* the fuzz_one of the latest turn of the inner loop is over and the loop is
\* before the next one or before the end of the cycle
IterationOver == pc.at \in {"fuzz", "end_cycle"} /\ obs.mut.called

\* the cycle with loops = 2 whose fuzz_one calls returned Ok then Timeout is
\* over
OkThenTimeout ==
    /\ pc.at = "choose"
    /\ pc.loops = 2
    /\ obs.cycle.kinds = <<"Ok", "Timeout">>

AllFuzzCycles(st) == [k \in 1..Len(st.inner) |-> st.inner[k].fuzz_cycles]

C22_EintrThenNextCycle ==
    ~( /\ obs.failure = Failure("fuzz", "EINTR")
       /\ ~quitting
       /\ pc.at = "choose"
       /\ fuzz_cycles(state) = obs.cycle.cycles_before + 1 )

CollectorOf(ex) == unwrap(ex.request_response_collector)
TraceFile(ex, n) == CollectorOf(ex).files[n + 1]
TraceNumbers(ex) == 0..(Len(CollectorOf(ex).files) - 1)
HoldsCrash(file) == \E i \in 1..Len(file) : file[i].exit_kind = "Crash"
\* the pairs of a process that crashed: the last execution is the crash
CrashedLifetime(file) ==
    /\ Len(file) > 0
    /\ file[Len(file)].exit_kind = "Crash"
    /\ \A i \in 1..(Len(file) - 1) : file[i].exit_kind # "Crash"
\* start_new_trace never truncates the file again
Preserved(ex, n) == n \in TraceNumbers(ex) /\ n < CollectorOf(ex).trace_no

C29_PreservedFromOne ==
    is_some(executor.request_response_collector) =>
        \A n \in TraceNumbers(executor) :
            HoldsCrash(TraceFile(executor, n)) => n >= 1

\* the steps of an execution that the order of the specification names
StepOrder == <<"ctl", "pid", "socket", "status", "response">>
Named(steps) == SelectSeq(steps, LAMBDA x : \E i \in 1..Len(StepOrder) : StepOrder[i] = x)
IsPrefix(a, b) == Len(a) <= Len(b) /\ \A i \in 1..Len(a) : a[i] = b[i]

\* C30: the steps of one execution are begun in the order control-pipe
\* write, PID read, delivery on the socket, status read, response read; the
\* execution ends with the step that failed, and all five are performed when
\* it returns a classification.  What the steps leave behind agrees: no PID
\* is recorded unless the PID read succeeded, and a pair is written exactly
\* if the response was read.
C30_StepOrder ==
    ( /\ obs.call.op = "run_target"
      /\ is_some(executor.request_response_collector) ) =>
        LET steps == obs.call.steps
            pairs(ex) == Len(TraceFile(ex, CollectorOf(ex).writer))
        IN  /\ IsPrefix(Named(steps), StepOrder)
            /\ obs.call.ok <=> Named(steps) = StepOrder
            /\ ~obs.call.ok =>
                  /\ steps[Len(steps)] =
                        IF obs.call.at = "after_kill" THEN "status_after_kill"
                        ELSE obs.call.at
                  /\ \A i \in 1..(Len(steps) - 1) : steps[i] # steps[Len(steps)]
            /\ Len(steps) <= 2 =>
                  /\ executor.child_pid = obs.call.pre.child_pid
                  /\ executor.status = obs.call.pre.status
            /\ Len(steps) <= 1 => executor.forks = obs.call.pre.forks
            /\ Len(Named(steps)) < Len(StepOrder) =>
                  CollectorOf(executor).trace_no = CollectorOf(obs.call.pre).trace_no

C30_Witness ==
    /\ obs.call.op = "run_target"
    /\ is_some(executor.request_response_collector)
    /\ obs.call.at = "timeout"
    /\ obs.call.steps = <<"ctl", "pid", "socket", "status", "kill",
                          "status_after_kill", "response">>
    /\ obs.call.prev_op = "run_target"
    /\ ~obs.call.prev_ok

\* the history maps calculate_total_coverage reads: the shared one, or the
\* one of every target state
CoverageSources(st) ==
    IF st.access_mode \in {"SingleCorp", "MultiCorpSingleMeta"}
    THEN {history_of(named_metadata_map(st))}
    ELSE {history_of(unwrap(st.inner[k].named_metadata)) : k \in 1..Len(st.inner)}

LongestOf(maps) == CHOOSE l \in {Len(m) : m \in maps} : \A m \in maps : Len(m) <= l

\* C26: calculate_total_coverage returns the number of edges that are
\* non-zero in the map of at least one source (the shared history map, or in
\* MultiCorpMultiMeta the history map of every target state) and the length
\* of the longest source map.
C26_TotalCoverage ==
    last.op = "calculate_total_coverage" =>
        LET maps == CoverageSources(last.pre)
            total == LongestOf(maps)
            covered == {p \in 1..total :
                          \E m \in maps : p <= Len(m) /\ m[p] # 0}
        IN  /\ last.vals = <<Cardinality(covered), total>>
            /\ state = last.pre

\* state 0 hits the edges {1, 2}, state 1 the edges {2, 3}: 3 of 3
C26_Witness ==
    /\ last.op = "calculate_total_coverage"
    /\ last.pre.access_mode = "MultiCorpMultiMeta"
    /\ states_len(last.pre) = 2
    /\ history_of(unwrap(last.pre.inner[1].named_metadata)) = <<1, 1, 0>>
    /\ history_of(unwrap(last.pre.inner[2].named_metadata)) = <<0, 1, 1>>
    /\ last.vals = <<3, 3>>

AllExecutions(st) == [k \in 1..Len(st.inner) |-> st.inner[k].executions]

\* C24: the fuzz loop returns ShuttingDown exactly when an inner operation
\* failed with TimedOut; main then replaces the executor by a new one that
\* holds the collector of the old one and calls the fuzz loop again with
\* the container and the scheduler unchanged; after any other result main
\* leaves the loop and the executor is not replaced.
C24_TimedOutRecreatesForkserver ==
    [][ /\ pc'.at = "returned" =>
              (pc'.result = "ShuttingDown" <=> obs'.failure.err = "TimedOut")
        /\ (pc.at = "returned" /\ pc' # pc) =>
              IF pc.result = "ShuttingDown"
              THEN /\ pc'.at = "choose"
                   /\ pc'.recreations = pc.recreations + 1
                   /\ state' = state
                   /\ sched' = sched
                   /\ executor'.request_response_collector
                        = executor.request_response_collector
                   /\ is_none(executor'.child_pid)
                   /\ executor'.forks = 0
                   /\ ~quitting'
              ELSE /\ pc'.at = "exited"
                   /\ pc'.recreations = pc.recreations
                   /\ executor' = executor
        /\ pc'.recreations # pc.recreations => pc.at = "returned"
      ]_vars

\* the loop runs again after a recreation with the cycles, the executions
\* and a preserved trace of the first call
C24_Witness ==
    /\ pc.recreations = 1
    /\ pc.at = "fuzz"
    /\ states_len(state) = 2
    /\ \E k \in 1..2 : AllFuzzCycles(state)[k] > 0
    /\ \E k \in 1..2 : AllExecutions(state)[k] > 0
    /\ unwrap(executor.request_response_collector).trace_no > 0

\* C27: after a result of the fuzz loop that is an error other than
\* ShuttingDown the process prints the failure and ends with a nonzero exit
\* status; the exit status is 0 only after the fuzz loop returned Ok.
C27_FailureExitsNonzero ==
    pc.at = "exited" =>
        /\ pc.result # "Ok" =>
              /\ unwrap(pc.exit_status) # 0
              /\ \E k \in DOMAIN pc.printed : pc.printed[k] = "Quitting due to error"
        /\ unwrap(pc.exit_status) = 0 => pc.result = "Ok"

\* the fuzz loop returned an error, the failure was printed and the exit
\* status is 0
C27_ErrorExitsZero ==
    /\ pc.at = "exited"
    /\ pc.result = "Err"
    /\ pc.printed = <<"Quitting due to error", "Quitting! Recreated forkserver">>
    /\ pc.exit_status = Some(0)

NoOperationFailed == obs.failure = NoFailure /\ obs.choose.ok

ReturnedOk == pc.at = "returned" /\ pc.result = "Ok"

C35_LeavesActiveId ==
    (obs.choose.called /\ sched.unused_first) =>
        obs.choose.post_idx = obs.choose.pre_idx

\* every state has been fuzzed, state 0 was active at the call, and the call
\* returned the inner scheduler's choice with state 1 active
C35_ReturnsAtLastState ==
    /\ obs.choose.called
    /\ sched.unused_first
    /\ state.num_states = 2
    /\ \A k \in 1..2 : obs.choose.cycles[k] > 0
    /\ obs.choose.ok
    /\ obs.choose.pre_idx = 0
    /\ obs.choose.post_idx = 1

\* C37: UnusedFirst.choose_next_state returns an error only when no state
\* has fuzz_cycles = 0, and the error is then that of the inner scheduler;
\* while a state with fuzz_cycles = 0 exists the call returns the lowest
\* such id as a success, whether the inner scheduler failed or not.
C37_InnerErrorOnlyWhenAllUsed ==
    (obs.choose.called /\ sched.unused_first) =>
        LET c == obs.choose
            unused == {k \in AllIds : c.cycles[k + 1] = 0}
        IN  /\ ~c.ok => /\ unused = {}
                        /\ ~c.inner.ok
                        /\ c.err = c.inner.err
            /\ unused # {} =>
                  /\ c.ok
                  /\ c.idx \in unused
                  /\ \A j \in unused : c.idx <= j
            /\ (unused = {} /\ ~c.inner.ok) => ~c.ok

\* the inner scheduler failed, state 1 of 2 is the only unused one and is
\* returned
C37_Witness ==
    /\ obs.choose.called
    /\ sched.unused_first
    /\ state.num_states = 2
    /\ ~obs.choose.inner.ok
    /\ obs.choose.inner.err = "IllegalState"
    /\ obs.choose.cycles = <<1, 0>>
    /\ obs.choose.ok
    /\ obs.choose.idx = 1

NoveltyMeta(st) == shared_metadata_map(st)[KEY_NOVELTY]

\* C38: a weight computation of the novelty search that fails has stored
\* the new, smaller count of the current state and has left the stored
\* novelties as they were; the computation repeated at once for the same
\* state and map succeeds and stores novelty 0 for it.
C38_ShrinkErrorStoresCount ==
    [][ last'.op = "get_weights" =>
          LET cur == current_state_idx(state)
          IN  /\ ~last'.ok =>
                    /\ CurrentCount(state) < StoredCount(state)
                    /\ StoredCount(state') = CurrentCount(state)
                    /\ NoveltyMeta(state').novelties = NoveltyMeta(state).novelties
                    /\ NoveltyMeta(state').index_counts
                         = map_insert(NoveltyMeta(state).index_counts, cur,
                                      CurrentCount(state))
                    /\ current_state_idx(state') = cur
                    /\ CurrentCount(state') = CurrentCount(state)
              /\ (last.op = "get_weights" /\ ~last.ok) =>
                    /\ last'.ok
                    /\ NoveltyMeta(state').novelties
                         = map_insert(NoveltyMeta(state).novelties, cur, 0)
                    /\ NoveltyMeta(state').index_counts = NoveltyMeta(state).index_counts
      ]_vars

\* the stored count was 2, the map holds 1 non-zero byte: the first
\* computation failed, the second succeeded with novelty 0
C38_Witness ==
    /\ last.op = "get_weights"
    /\ last.vals = <<FALSE, TRUE>>
    /\ state.num_states = 2
    /\ current_state_idx(state) = 1
    /\ CurrentCount(state) = 1
    /\ StoredCount(state) = 1
    /\ NoveltyMeta(state).novelties[1] = 0

\* the state being fuzzed is the lowest state not fuzzed yet, or every state
\* has been fuzzed
LowestUnusedOrAllUsed(st) ==
    LET c == current_state_idx(st)
        cyc == AllFuzzCycles(st)
    IN  \/ \A j \in 1..Len(cyc) : cyc[j] > 0
        \/ /\ cyc[c + 1] = 0
           /\ \A j \in 1..c : cyc[j] > 0

Contains(seq, x) == \E i \in 1..Len(seq) : seq[i] = x

\* C32: an execution that returns a classification returns Crash iff the
\* status arrived within the timeout and says the child was terminated by a
\* signal, Ok iff it arrived within the timeout and does not say so, Timeout
\* iff no status arrived within the timeout, the child was sent the kill
\* signal and a status arrived afterwards; if none arrives after the kill
\* either, the execution returns a TimedOut error and no classification.
C32_Classification ==
    obs.call.op = "run_target" =>
        LET in_time == obs.call.at \in {"stopped", "exited", "signaled"}
            late == /\ obs.call.at \in {"timeout", "timeout_stopped"}
                    /\ Contains(obs.call.steps, "kill")
                    /\ Contains(obs.call.steps, "status_after_kill")
        IN  /\ obs.call.ok <=> (in_time \/ late)
            /\ obs.call.ok =>
                  /\ obs.call.exit_kind = "Crash" <=>
                        (in_time /\ executor.status = "signaled")
                  /\ obs.call.exit_kind = "Ok" <=>
                        (in_time /\ executor.status # "signaled")
                  /\ obs.call.exit_kind = "Timeout" <=> late
                  /\ in_time => ~Contains(obs.call.steps, "kill")
            /\ (obs.call.at = "after_kill" /\ obs.call.err = "TimedOut") =>
                  /\ ~obs.call.ok
                  /\ obs.call.exit_kind = "none"
                  /\ Contains(obs.call.steps, "kill")

\* an execution classified Timeout whose child was terminated by the kill
\* signal
C32_Witness ==
    /\ obs.call.op = "run_target"
    /\ obs.call.ok
    /\ obs.call.exit_kind = "Timeout"
    /\ executor.status = "signaled"
    /\ Contains(obs.call.steps, "kill")

\* C33: after an execution that returns a classification a child PID is
\* recorded iff the status the forkserver reported last says the child is
\* stopped, and the recorded PID is then the PID of the child that ran; the
\* execution that follows starts a new trace iff no PID was recorded, and it
\* runs in a newly forked child then.
C33_PidKeptIffStopped ==
    obs.call.op = "run_target" =>
        LET pre == obs.call.pre
            began == is_some(executor.request_response_collector)
                     /\ unwrap(executor.request_response_collector).writer
                          = unwrap(pre.request_response_collector).trace_no
                     /\ (obs.call.ok =>
                           Len(unwrap(executor.request_response_collector).files
                                 [unwrap(executor.request_response_collector).writer + 1]) = 1)
        IN  /\ obs.call.ok =>
                  /\ is_some(executor.child_pid) <=> (executor.status = "stopped")
                  /\ is_some(executor.child_pid) =>
                        executor.child_pid = Some(executor.forks)
            /\ (obs.call.prev_op = "run_target" /\ obs.call.prev_ok) =>
                  /\ is_none(pre.child_pid) <=> (pre.status # "stopped")
                  /\ (is_none(pre.child_pid) /\ obs.call.ok) => began
                  /\ (is_none(pre.child_pid) /\ obs.call.at \notin {"ctl"}) =>
                        executor.forks = pre.forks + 1
                  /\ (is_some(pre.child_pid) /\ obs.call.ok) =>
                        unwrap(executor.request_response_collector).writer
                          = unwrap(pre.request_response_collector).writer

\* an execution classified Timeout cleared the PID, and the execution after
\* it ran in a new child and began a new trace
C33_Witness ==
    /\ obs.call.op = "run_target"
    /\ obs.call.prev_op = "run_target"
    /\ obs.call.prev_ok
    /\ obs.call.pre.last_run_timed_out
    /\ is_none(obs.call.pre.child_pid)
    /\ obs.call.ok
    /\ obs.call.exit_kind = "Ok"
    /\ is_some(executor.child_pid)
    /\ unwrap(executor.request_response_collector).writer
         = unwrap(obs.call.pre.request_response_collector).trace_no

\* C39: when every execution returns a classification, reset_target_state
\* is never called with the last-run-timed-out flag set and a child PID
\* recorded.
C39_ResetNeverIllegal ==
    pc.at = "change" =>
        ~(executor.last_run_timed_out /\ is_some(executor.child_pid))

\* the change of state failed with IllegalState although no execution
\* returned an error
C39_IllegalStateReached ==
    /\ obs.failure = Failure("change", "IllegalState")
    /\ pc.at = "returned"
    /\ executor.last_run_timed_out
    /\ executor.status = "stopped"
    /\ is_some(executor.child_pid)

\* C34: in socket-server mode serv_start is never called while a serv_start
\* without serv_finish is pending, and the listener is there whenever an
\* accept thread is to be spawned.
C34_StartFinishAlternate ==
    /\ ~executor.socket_con.started_twice
    /\ pc.at # "panicked"

\* an execution failed before the PID was read, and the next execution
\* found the listener taken
C34_ListenerTaken ==
    /\ pc.at = "panicked"
    /\ obs.call.op = "run_target"
    /\ obs.call.prev_op = "run_target"
    /\ ~obs.call.prev_ok
    /\ obs.runs = 2
    /\ is_none(executor.socket_con.listener)
    /\ is_some(executor.socket_con.handle)

\* the features that the hello word offers and the builder is configured for
Negotiated(b, hello) ==
    (IF FS_OPT_SHDMEM_FUZZ \subseteq hello /\ is_some(b.map)
     THEN FS_OPT_SHDMEM_FUZZ ELSE {})
    \cup (IF FS_OPT_AUTODICT \subseteq hello /\ is_some(b.autotokens)
          THEN FS_OPT_AUTODICT ELSE {})

\* C36: when the hello word was read in full, an acknowledgement word is
\* written iff the hello word carries the enabled flag and a feature is
\* both offered and configured; the word is the enabled flag plus exactly
\* those features and nothing else is written; a short read, a short write
\* or an autodict size outside [2, 0x00ffffff] makes the constructor return
\* an error.
C36_AckWord ==
    last.op = "build_helper" =>
        LET in == last.arg
            features == Negotiated(last.pre, in.hello)
            wanted == FS_OPT_ENABLED \subseteq in.hello /\ features # {}
        IN  /\ in.rlen = 4 =>
                  /\ (last.written # <<>>) <=> wanted
                  /\ wanted => last.written = <<FS_OPT_ENABLED \cup features>>
            /\ in.rlen # 4 => (last.written = <<>> /\ ~last.ok /\ ~last.panicked)
            /\ (last.written # <<>> /\ in.send_len # 4) =>
                  (~last.ok /\ ~last.panicked)
            /\ ( /\ last.written # <<>>
                 /\ in.send_len = 4
                 /\ FS_OPT_AUTODICT \subseteq features
                 /\ \/ in.read_len # 4
                    \/ in.dict_size < 2
                    \/ in.dict_size > 16777215 ) =>
                  (~last.ok /\ ~last.panicked)

\* the hello word announces a map larger than the configured one
MapTooLarge(b, hello) ==
    /\ FS_OPT_ENABLED \cup FS_OPT_MAPSIZE \subseteq hello
    /\ is_some(b.map_size)
    /\ fs_opt_get_mapsize(hello) > unwrap(b.map_size)

\* C36, for the handshakes in which the announced map fits the configured
\* one: the same statement; in the others the constructor panics before
\* anything is written.
C36_AckWordUnlessMapTooLarge ==
    last.op = "build_helper" =>
        /\ ~(last.arg.rlen = 4 /\ MapTooLarge(last.pre, last.arg.hello)) =>
              (C36_AckWord /\ ~last.panicked)
        /\ (last.arg.rlen = 4 /\ MapTooLarge(last.pre, last.arg.hello)) =>
              (last.panicked /\ last.written = <<>>)

\* shared-memory fuzzing is offered and configured, and the constructor
\* panicked on the map size before it wrote the acknowledgement
C36_PanicBeforeAck ==
    /\ last.op = "build_helper"
    /\ last.panicked
    /\ last.written = <<>>
    /\ last.arg.rlen = 4
    /\ FS_OPT_ENABLED \subseteq last.arg.hello
    /\ FS_OPT_SHDMEM_FUZZ \subseteq Negotiated(last.pre, last.arg.hello)

\* both features were negotiated and the dictionary was loaded
C36_BothNegotiated ==
    /\ last.op = "build_helper"
    /\ last.ok
    /\ last.written = <<FS_OPT_ENABLED \cup FS_OPT_SHDMEM_FUZZ \cup FS_OPT_AUTODICT>>

=============================================================================
